---- MODULE Spec2Model ----
(***************************************************************************)
(* Credential-encryption subsystem: the ENC2 envelope (CryptoService,      *)
(* CryptoEncryption, CryptoDecryption, CryptoHmac, CryptoArgon2,           *)
(* CryptoValidation) and the file-backed secret store with its per-path    *)
(* lock registry (SecretFileManager).                                      *)
(*                                                                         *)
(* Strings are sequences of one-character strings; byte buffers are        *)
(* sequences of 0..255.                                                    *)
(***************************************************************************)
EXTENDS Integers, Sequences, FiniteSets, TLC

(***************************************************************************)
(* Strings and base64 (Buffer.toString("base64"), Buffer.from(s,"base64")) *)
(***************************************************************************)

B64Alphabet ==
  << "A","B","C","D","E","F","G","H","I","J","K","L","M","N","O","P",
     "Q","R","S","T","U","V","W","X","Y","Z","a","b","c","d","e","f",
     "g","h","i","j","k","l","m","n","o","p","q","r","s","t","u","v",
     "w","x","y","z","0","1","2","3","4","5","6","7","8","9","+","/" >>

B64Chars == { B64Alphabet[i] : i \in 1..64 }

\* the 6-bit value of a base64 character
B64Val == [ c \in B64Chars |-> (CHOOSE i \in 1..64 : B64Alphabet[i] = c) - 1 ]

PadChar == "="

\* number of trailing '=' of s
TrailingPads(s) ==
  LET data == { i \in 1..Len(s) : s[i] # PadChar }
  IN  IF data = {} THEN Len(s)
      ELSE Len(s) - (CHOOSE i \in data : \A j \in data : j <= i)

\* Buffer.toString("base64"): 3 bytes -> 4 characters, '=' padding
Base64Encode(bytes) ==
  LET n     == Len(bytes)
      nData == (8 * n + 5) \div 6
      nAll  == 4 * ((n + 2) \div 3)
      At(j) == IF j <= n THEN bytes[j] ELSE 0
      Sextet(k) ==
        LET bit == 6 * (k - 1)
            b   == bit \div 8 + 1
            r   == bit % 8
        IN  CASE r = 0 -> At(b) \div 4
              [] r = 6 -> (At(b) % 4) * 16 + At(b + 1) \div 16
              [] r = 4 -> (At(b) % 16) * 4 + At(b + 1) \div 64
              [] r = 2 -> At(b) % 64
  IN  [ k \in 1..nAll |-> IF k <= nData THEN B64Alphabet[Sextet(k) + 1] ELSE PadChar ]

\* Buffer.from(s, "base64"): decoding stops at the first '=', characters outside
\* the alphabet are skipped, every full group of 8 bits is a byte and the
\* left-over bits are dropped
Base64Decode(s) ==
  LET pads  == { i \in 1..Len(s) : s[i] = PadChar }
      stop  == IF pads = {} THEN Len(s) + 1
               ELSE CHOOSE i \in pads : \A j \in pads : i <= j
      IsB64(c) == c \in B64Chars
      data  == SelectSeq(SubSeq(s, 1, stop - 1), IsB64)
      vals  == [ k \in 1..Len(data) |-> B64Val[data[k]] ]
      n     == (6 * Len(data)) \div 8
      Byte(j) ==
        LET bit == 8 * (j - 1)
            q   == bit \div 6 + 1
            r   == bit % 6
        IN  CASE r = 0 -> vals[q] * 4 + vals[q + 1] \div 16
              [] r = 2 -> (vals[q] % 16) * 16 + vals[q + 1] \div 4
              [] r = 4 -> (vals[q] % 4) * 64 + vals[q + 1]
  IN  [ j \in 1..n |-> Byte(j) ]

\* String.prototype.split(sep) for a one-character separator: the tokens
\* between consecutive separators, empty tokens included
Split(s, sep) ==
  LET seps   == { i \in 1..Len(s) : s[i] = sep }
      Nth(k) == IF k = 0 THEN 0
                ELSE IF k > Cardinality(seps) THEN Len(s) + 1
                ELSE CHOOSE i \in seps : Cardinality({ j \in seps : j < i }) = k - 1
  IN  [ k \in 1..(Cardinality(seps) + 1) |-> SubSeq(s, Nth(k - 1) + 1, Nth(k) - 1) ]

\* String.prototype.startsWith
StartsWith(s, p) == Len(s) >= Len(p) /\ SubSeq(s, 1, Len(p)) = p

\* String.prototype.substring(n)
Substring(s, n) == SubSeq(s, n + 1, Len(s))

\* Array.prototype.join(sep)
\* String.prototype.trim
RECURSIVE Trim(_)
Trim(s) ==
  IF s = << >> THEN s
  ELSE IF s[1] \in { " ", "\t", "\n", "\r" } THEN Trim(Tail(s))
  ELSE IF s[Len(s)] \in { " ", "\t", "\n", "\r" } THEN Trim(SubSeq(s, 1, Len(s) - 1))
  ELSE s

RECURSIVE Join(_, _)
Join(parts, sep) ==
  IF parts = <<>> THEN <<>>
  ELSE IF Len(parts) = 1 THEN parts[1]
  ELSE parts[1] \o sep \o Join(Tail(parts), sep)


\* TextEncoder.encode / the UTF-8 bytes of a string of ASCII characters
AsciiCode(c) ==
  IF c \in B64Chars
  THEN LET v == B64Val[c]
       IN  CASE v <= 25 -> 65 + v
             [] v >= 26 /\ v <= 51 -> 97 + (v - 26)
             [] v >= 52 /\ v <= 61 -> 48 + (v - 52)
             [] v = 62 -> 43
             [] v = 63 -> 47
  ELSE CASE c = ":" -> 58
         [] c = "=" -> 61
         [] c = "#" -> 35
         [] c = "_" -> 95
         [] OTHER -> 63

TextEncode(str) == [ i \in 1..Len(str) |-> AsciiCode(str[i]) ]

TextChars == B64Chars \cup {":", "=", "#", "_"}

\* TextDecoder.decode: bytes that are no known character decode to "?"
TextDecode(bytes) ==
  [ i \in 1..Len(bytes) |->
      IF \E c \in TextChars : AsciiCode(c) = bytes[i]
      THEN CHOOSE c \in TextChars : AsciiCode(c) = bytes[i]
      ELSE "?" ]

(***************************************************************************)
(* CRYPTO_CONFIG and CRYPTO_CONSTANTS                                      *)
(***************************************************************************)

IV == 16
WEB_CRYPTO_IV == 12
SALT == 32
SECRET_KEY == 32
HMAC_KEY_LENGTH == 32
MAX_REASONABLE_LENGTH == 4096
MIN_SECURE_LENGTH == 8

PREFIX == << "E", "N", "C", "2", ":" >>
VERSION == << "v", "1" >>
SEPARATOR == ":"
EXPECTED_PARTS == 5

\* validateSecretKey's minimum length
MinSecretLength == 16

(***************************************************************************)
(* The library primitives, as ideal functions.  A digest is a pair of      *)
(* position-weighted sums: it separates any two inputs that differ in one  *)
(* or two adjacent places, which is what the envelope checks rely on.      *)
(***************************************************************************)

DigestModulus == 65521

\* AES-GCM's authentication tag and the HMAC-SHA-256 output, in bytes
GcmTagLength == 16
HmacLength == 32

\* the sum over i in lo..hi of (b[i] + 1), each weighted by i when weighted,
\* modulo DigestModulus
RECURSIVE SumRange(_, _, _, _)
SumRange(b, weighted, lo, hi) ==
  IF lo > hi THEN 0
  ELSE IF lo = hi THEN ((IF weighted THEN lo ELSE 1) * (b[lo] + 1)) % DigestModulus
  ELSE LET mid == (lo + hi) \div 2
       IN  (SumRange(b, weighted, lo, mid) + SumRange(b, weighted, mid + 1, hi))
             % DigestModulus

PlainSum(b) == SumRange(b, FALSE, 1, Len(b))

WeightedSum(b) == SumRange(b, TRUE, 1, Len(b))

Digest(b) == << PlainSum(b), WeightedSum(b) >>

\* n bytes that carry the digest d, each 4-byte group offset by its position
DigestBytes(d, n, off) ==
  [ i \in 1..n |->
      CASE i % 4 = 1 -> ((d[1] \div 256) + i + off) % 256
        [] i % 4 = 2 -> ((d[1] % 256) + i + off) % 256
        [] i % 4 = 3 -> ((d[2] \div 256) + i + off) % 256
        [] i % 4 = 0 -> ((d[2] % 256) + i + off) % 256 ]

\* argon2.hash(secretKey, {salt, hashLength, raw: true})
Argon2Hash(secretKey, saltBuffer, hashLength) ==
  DigestBytes(Digest(TextEncode(secretKey) \o << 256 >> \o saltBuffer), hashLength, 0)

\* subtle.importKey("raw", keyBuffer, {name}, false, usages): an opaque handle
ImportKey(keyBuffer, algorithm) == [ alg |-> algorithm, raw |-> keyBuffer ]

\* no key handle yet
NoKey == [ alg |-> "none", raw |-> << >> ]

\* subtle.sign("HMAC", key, data)
HmacSign(key, data) ==
  DigestBytes(Digest(key.raw \o << 256 >> \o data), HmacLength, 1)

GcmKeystream(key, iv, i) ==
  LET d == Digest(key.raw \o << 256 >> \o iv) IN (d[1] + i * d[2]) % 256

GcmTag(key, iv, body) ==
  DigestBytes(Digest(key.raw \o << 256 >> \o iv \o << 256 >> \o body), GcmTagLength, 2)

\* subtle.encrypt({name: "AES-GCM", iv}, key, data): ciphertext followed by the tag
GcmEncrypt(key, iv, data) ==
  LET body == [ i \in 1..Len(data) |-> (data[i] + GcmKeystream(key, iv, i)) % 256 ]
  IN  body \o GcmTag(key, iv, body)

\* subtle.decrypt({name: "AES-GCM", iv}, key, data): the plaintext, or a failure when
\* the key is no AES-GCM key, the data is shorter than a tag, or the tag is wrong
GcmDecrypt(key, iv, data) ==
  IF key.alg # "AES-GCM" \/ Len(data) < GcmTagLength
  THEN [ ok |-> FALSE, bytes |-> << >> ]
  ELSE LET n    == Len(data) - GcmTagLength
           body == SubSeq(data, 1, n)
           tag  == SubSeq(data, n + 1, Len(data))
       IN  IF tag # GcmTag(key, iv, body)
           THEN [ ok |-> FALSE, bytes |-> << >> ]
           ELSE [ ok |-> TRUE,
                  bytes |-> [ i \in 1..n |-> (body[i] - GcmKeystream(key, iv, i)) % 256 ] ]

\* crypto.timingSafeEqual on two buffers of equal length
TimingSafeEqual(a, b) == a = b

(***************************************************************************)
(* Errors.  ErrorHandler.logAndThrow(source, message) throws                *)
(* new Error(message); a failing subtle.decrypt throws the platform's       *)
(* OperationError.  A message is the tuple of its text and the values       *)
(* interpolated into it.                                                    *)
(***************************************************************************)

NoError == [ name |-> "none", message |-> << >> ]

logAndThrow(source, message) == [ name |-> "Error", message |-> message ]

OperationError ==
  [ name |-> "OperationError",
    message |-> << "The operation failed for an operation-specific reason" >> ]

\* a JavaScript undefined (a destructured array element that is not there)
Undefined == << "undefined" >>

\* !value for a string or undefined
Falsy(value) == value = Undefined \/ value = << >>

(***************************************************************************)
(* CryptoValidation                                                         *)
(***************************************************************************)

\* /^[A-Za-z0-9+/]*={0,2}$/.test(value)
base64Regex(value) ==
  LET pads == TrailingPads(value)
  IN  /\ pads <= 2
      /\ \A i \in 1..(Len(value) - pads) : value[i] \in B64Chars

isValidBase64(value) ==
  IF Falsy(value) THEN FALSE
  ELSE IF ~base64Regex(value) \/ Len(value) % 4 # 0 THEN FALSE
  ELSE TRUE

isEncrypted(value) ==
  IF Falsy(value) THEN FALSE
  ELSE IF ~StartsWith(value, PREFIX) THEN FALSE
  ELSE LET parts == Split(Substring(value, Len(PREFIX)), SEPARATOR)
       IN  IF Len(parts) # EXPECTED_PARTS + 1 THEN FALSE
           ELSE IF parts[1] # VERSION THEN FALSE
           ELSE \A i \in 2..Len(parts) : isValidBase64(parts[i])

validateBase64String(value, fieldName) ==
  IF Falsy(value)
  THEN logAndThrow("CryptoEngine.validateBase64String",
                   << fieldName, " must be a non-empty string" >>)
  ELSE IF ~isValidBase64(value)
  THEN logAndThrow("validateBase64String",
                   << fieldName, " is not a valid base64 string" >>)
  ELSE NoError

validateSecretKey_NonEmptyOnly(secretKey) ==
  IF Falsy(secretKey)
  THEN logAndThrow("CryptoEngine.validateSecretKey",
                   << "Secret key must be a non-empty string" >>)
  ELSE NoError

validateSecretKey(secretKey) ==
  IF Falsy(secretKey)
  THEN logAndThrow("CryptoEngine.validateSecretKey",
                   << "Secret key must be a non-empty string" >>)
  ELSE IF Len(secretKey) < MinSecretLength
  THEN logAndThrow("validateSecretKey",
                   << "Secret key must be at least 16 characters long" >>)
  ELSE NoError

validateInputs(value, secretKey, operation) ==
  IF Falsy(value)
  THEN logAndThrow("CryptoEngine.validateInputs",
                   << operation, ": Value must be a non-empty string" >>)
  ELSE IF Falsy(secretKey)
  THEN logAndThrow("validateSecretKey",
                   << operation, ": Secret key must be a non-empty string" >>)
  ELSE NoError

(***************************************************************************)
(* CryptoDecryption, CryptoHmac, CryptoArgon2, CryptoEncryption             *)
(***************************************************************************)

\* the names of the components among salt, iv, cipherText, hmac that are bad
ComponentNames(badSalt, badIv, badCipherText, badHmac) ==
  (IF badSalt THEN << "salt" >> ELSE << >>)
    \o (IF badIv THEN << "iv" >> ELSE << >>)
    \o (IF badCipherText THEN << "cipherText" >> ELSE << >>)
    \o (IF badHmac THEN << "hmac" >> ELSE << >>)

NotBase64(value) == ~isValidBase64(value)

validateEncryptedComponents(encryptedData, parts, version, salt, iv, cipherText, receivedHmac) ==
  LET expectedParts     == EXPECTED_PARTS + 1
      missingParts      == ComponentNames(Falsy(salt), Falsy(iv), Falsy(cipherText),
                                          Falsy(receivedHmac))
      invalidComponents == ComponentNames(NotBase64(salt), NotBase64(iv),
                                          NotBase64(cipherText), NotBase64(receivedHmac))
  IN  IF ~StartsWith(encryptedData, PREFIX)
      THEN logAndThrow("CryptoEngine.validateEncryptedComponents",
                       << "Invalid encrypted format: Missing prefix" >>)
      ELSE IF Len(parts) # expectedParts
      THEN logAndThrow("CryptoEngine.validateEncryptedComponents",
                       << "Invalid format. Expected parts, got", expectedParts, Len(parts) >>)
      ELSE IF version # VERSION
      THEN logAndThrow("CryptoEngine.validateEncryptedComponents",
                       << "Unsupported encryption version: ", version >>)
      ELSE IF Len(missingParts) > 0
      THEN logAndThrow("CryptoEngine.validateEncryptedComponents",
                       << "Missing components - ", missingParts >>)
      ELSE IF Len(invalidComponents) > 0
      THEN logAndThrow("CryptoEngine.validateEncryptedComponents",
                       << "Invalid format for components: ", invalidComponents >>)
      ELSE NoError

\* the i-th element of a destructured array
Element(parts, i) == IF i <= Len(parts) THEN parts[i] ELSE Undefined

parseEncryptedData(encryptedData) ==
  LET encryptedPart == Substring(encryptedData, Len(PREFIX))
      parts         == Split(encryptedPart, SEPARATOR)
      version       == Element(parts, 1)
      salt          == Element(parts, 2)
      iv            == Element(parts, 3)
      cipherText    == Element(parts, 4)
      receivedHmac  == Element(parts, 5)
      error ==
        IF Falsy(version) \/ Falsy(salt) \/ Falsy(iv) \/ Falsy(cipherText)
             \/ Falsy(receivedHmac)
        THEN logAndThrow("CryptoEngine.parseEncryptedData",
                         << "Invalid encrypted data format" >>)
        ELSE validateEncryptedComponents(encryptedData, parts, version, salt, iv,
                                         cipherText, receivedHmac)
  IN  [ error |-> error, version |-> version, salt |-> salt, iv |-> iv,
        cipherText |-> cipherText, receivedHmac |-> receivedHmac ]

prepareHMACData(salt, iv, cipherText) ==
  Base64Decode(salt) \o Base64Decode(iv) \o Base64Decode(cipherText)

\* CryptoWebOperations.computeHMAC
computeHMAC(key, data) == Base64Encode(HmacSign(key, data))

verifyHMAC_LengthOnly(computedHmac, receivedHmac) ==
  Len(Base64Decode(computedHmac)) = Len(Base64Decode(receivedHmac))

verifyHMAC(computedHmac, receivedHmac) ==
  LET computed == Base64Decode(computedHmac)
      received == Base64Decode(receivedHmac)
  IN  IF Len(computed) # Len(received) THEN FALSE
      ELSE TimingSafeEqual(computed, received)

verifyHMACIntegrity(salt, iv, cipherText, receivedHmac, hmacKey) ==
  LET dataToHmac   == prepareHMACData(salt, iv, cipherText)
      computedHmac == computeHMAC(hmacKey, dataToHmac)
      isValid      == verifyHMAC(computedHmac, receivedHmac)
  IN  IF ~isValid
      THEN logAndThrow("CryptoEngine.verifyHMACIntegrity",
             << "Authentication failed: HMAC mismatch - invalid key or tampered data" >>)
      ELSE NoError

deriveKeysWithArgon2(secretKey, salt) ==
  LET error            == validateBase64String(salt, "salt")
      saltBuffer       == Base64Decode(salt)
      derivedKeyBuffer == Argon2Hash(secretKey, saltBuffer, SECRET_KEY + HMAC_KEY_LENGTH)
      encryptionKeyBuffer == SubSeq(derivedKeyBuffer, 1, SECRET_KEY)
      hmacKeyBuffer    == SubSeq(derivedKeyBuffer, SECRET_KEY + 1, Len(derivedKeyBuffer))
  IN  IF error # NoError
      THEN [ error |-> error, encryptionKey |-> NoKey, hmacKey |-> NoKey ]
      ELSE [ error |-> NoError,
             encryptionKey |-> ImportKey(encryptionKeyBuffer, "AES-GCM"),
             hmacKey |-> ImportKey(hmacKeyBuffer, "HMAC") ]

performDecryption(iv, encryptionKey, cipherText) ==
  GcmDecrypt(encryptionKey, Base64Decode(iv), Base64Decode(cipherText))

formatEncryptedPayload_IvFirst(salt, iv, cipherText, hmac) ==
  PREFIX \o VERSION \o << SEPARATOR >> \o iv \o << SEPARATOR >> \o salt
    \o << SEPARATOR >> \o cipherText \o << SEPARATOR >> \o hmac

formatEncryptedPayload(salt, iv, cipherText, hmac) ==
  PREFIX \o VERSION \o << SEPARATOR >> \o salt \o << SEPARATOR >> \o iv
    \o << SEPARATOR >> \o cipherText \o << SEPARATOR >> \o hmac

createEncryptedPayload(value, salt, iv, encryptionKey, hmacKey) ==
  LET encryptedBuffer == GcmEncrypt(encryptionKey, iv, TextEncode(value))
      cipherText      == Base64Encode(encryptedBuffer)
      ivBase64        == Base64Encode(iv)
      dataToHmac      == prepareHMACData(salt, ivBase64, cipherText)
      hmacBase64      == computeHMAC(hmacKey, dataToHmac)
  IN  formatEncryptedPayload(salt, ivBase64, cipherText, hmacBase64)

(***************************************************************************)
(* SecretFileManager: the KEY=VALUE text of a secret file.  A file content  *)
(* is a string; NoFile is a path with no file.                              *)
(***************************************************************************)

NL == "\n"

NoFile == << "ENOENT" >>

formatEnvironmentKeyValue(keyName, value) == keyName \o << "=" >> \o value

\* the lines of fileContent that match /^keyName=.*$/m, by line number
MatchingLines(fileContent, keyName) ==
  LET lines == Split(fileContent, NL)
  IN  { i \in 1..Len(lines) : StartsWith(lines[i], keyName \o << "=" >>) }

\* fileContent.match(/^keyName=(.*)$/m)?.[1]
extractKeyValue(fileContent, keyName) ==
  LET lines == Split(fileContent, NL)
      hits  == MatchingLines(fileContent, keyName)
  IN  IF hits = {} THEN Undefined
      ELSE LET first == CHOOSE i \in hits : \A j \in hits : i <= j
           IN  Substring(lines[first], Len(keyName) + 1)

environmentKeyExists(fileContent, keyName) == MatchingLines(fileContent, keyName) # {}

\* String.prototype.replace expands the patterns $$, $& and $' of a replacement
\* string (the pattern /^keyName=.*$/m has no capture group, so $1 and the like
\* stay as they are; the pattern of $ and a backquote, the text before the
\* match, is left out: no string of the model holds a backquote)
RECURSIVE GetSubstitution(_, _, _)
GetSubstitution(matched, after, replacement) ==
  IF replacement = << >> THEN << >>
  ELSE IF /\ replacement[1] = "$"
          /\ Len(replacement) >= 2
          /\ replacement[2] \in { "$", "&", "'" }
  THEN (CASE replacement[2] = "$" -> << "$" >>
          [] replacement[2] = "&" -> matched
          [] replacement[2] = "'" -> after)
         \o GetSubstitution(matched, after, SubSeq(replacement, 3, Len(replacement)))
  ELSE << replacement[1] >> \o GetSubstitution(matched, after, Tail(replacement))

\* fileContent.replace(/^keyName=.*$/m, "keyName=value"): the first match only
updateExistingEnvironmentKey(fileContent, keyName, value) ==
  LET lines  == Split(fileContent, NL)
      hits   == MatchingLines(fileContent, keyName)
      first  == CHOOSE i \in hits : \A j \in hits : i <= j
      before == IF first = 1 THEN << >>
                ELSE Join(SubSeq(lines, 1, first - 1), << NL >>) \o << NL >>
      after  == IF first = Len(lines) THEN << >>
                ELSE << NL >> \o Join(SubSeq(lines, first + 1, Len(lines)), << NL >>)
  IN  before
        \o GetSubstitution(lines[first], after,
                           formatEnvironmentKeyValue(keyName, value))
        \o after

ensureFileEndsWithNewline(content) ==
  IF content # << >> /\ content[Len(content)] # NL THEN content \o << NL >> ELSE content

addEnvironmentKey(fileContent, keyName, value) ==
  ensureFileEndsWithNewline(fileContent) \o formatEnvironmentKeyValue(keyName, value)

updateEnvironmentKey(fileContent, keyName, value) ==
  IF environmentKeyExists(fileContent, keyName)
  THEN updateExistingEnvironmentKey(fileContent, keyName, value)
  ELSE addEnvironmentKey(fileContent, keyName, value)

shouldSkipExistingKey(fileContent, keyName, skipIfExists) ==
  IF ~skipIfExists THEN FALSE
  ELSE extractKeyValue(fileContent, keyName) # Undefined

(***************************************************************************)
(* SecureKeyGenerator                                                       *)
(***************************************************************************)

\* number of distinct values the random generator can return for one length
NumSeeds == 2

\* crypto.randomBytes(length) / crypto.getRandomValues: the bytes of draw `seed`
RandomBytes(seed, length) == [ i \in 1..length |-> (83 * seed + i * (seed + 5)) % 256 ]

\* a JavaScript number handed over as a length: num / den, or no number at all
\* (kind "NaN", "Infinity"), or a parameter left out (kind "undefined")
Number(n) == [ kind |-> "number", num |-> n, den |-> 1 ]

NoLength == [ kind |-> "undefined", num |-> 0, den |-> 1 ]

\* Number.isInteger
IsInteger(x) == x.kind = "number" /\ x.num % x.den = 0

validateLength_ExclusiveBounds(length, methodName) ==
  IF ~IsInteger(length)
  THEN logAndThrow(methodName, << "Length must be an integer, got", length >>)
  ELSE IF length.num \div length.den <= MIN_SECURE_LENGTH
  THEN logAndThrow(methodName, << "Length must be at least bytes for security, got",
                                  MIN_SECURE_LENGTH, length >>)
  ELSE IF length.num \div length.den >= MAX_REASONABLE_LENGTH
  THEN logAndThrow(methodName, << "Length exceeds maximum reasonable length of bytes",
                                  length, MAX_REASONABLE_LENGTH >>)
  ELSE NoError

validateLength(length, methodName) ==
  IF ~IsInteger(length)
  THEN logAndThrow(methodName, << "Length must be an integer, got", length >>)
  ELSE IF length.num \div length.den < MIN_SECURE_LENGTH
  THEN logAndThrow(methodName, << "Length must be at least bytes for security, got",
                                  MIN_SECURE_LENGTH, length >>)
  ELSE IF length.num \div length.den > MAX_REASONABLE_LENGTH
  THEN logAndThrow(methodName, << "Length exceeds maximum reasonable length of bytes",
                                  length, MAX_REASONABLE_LENGTH >>)
  ELSE NoError

\* the outcome of a generator: an error and nothing drawn, or the value made of
\* the bytes of one draw
generateSecureBytes(length, methodName, seed) ==
  LET error == validateLength(length, methodName)
  IN  IF error # NoError THEN [ error |-> error, bytes |-> << >>, draws |-> 0 ]
      ELSE [ error |-> NoError, bytes |-> RandomBytes(seed, length.num \div length.den),
             draws |-> 1 ]

\* buffer.toString("hex")
HexEncode(bytes) ==
  LET HexDigits == << "0", "1", "2", "3", "4", "5", "6", "7", "8", "9",
                      "a", "b", "c", "d", "e", "f" >>
  IN
  [ k \in 1..(2 * Len(bytes)) |->
      IF k % 2 = 1 THEN HexDigits[(bytes[(k + 1) \div 2] \div 16) + 1]
      ELSE HexDigits[(bytes[k \div 2] % 16) + 1] ]

generate(type, outputFormat, length, seed) ==
  LET defaultLength == CASE type = "salt" -> SALT
                         [] type = "secretKey" -> SECRET_KEY
                         [] type = "iv" -> IV
                         [] type = "random" -> 32
      finalLength == IF length.kind = "undefined" THEN Number(defaultLength) ELSE length
      methodName  == << "generate", type, outputFormat >>
      buffer      == generateSecureBytes(finalLength, methodName, seed)
  IN  IF type \notin { "salt", "secretKey", "iv", "random" }
      THEN [ error |-> [ name |-> "Error", message |-> << "Invalid crypto type", type >> ],
             value |-> << >>, draws |-> 0 ]
      ELSE IF buffer.error # NoError
      THEN [ error |-> buffer.error, value |-> << >>, draws |-> 0 ]
      ELSE CASE outputFormat = "base64" ->
                  [ error |-> NoError, value |-> Base64Encode(buffer.bytes), draws |-> 1 ]
             [] outputFormat = "hex" ->
                  [ error |-> NoError, value |-> HexEncode(buffer.bytes), draws |-> 1 ]
             [] outputFormat = "buffer" ->
                  [ error |-> NoError, value |-> buffer.bytes, draws |-> 1 ]
             [] OTHER ->
                  [ error |-> [ name |-> "Error",
                                message |-> << "Invalid output format", outputFormat >> ],
                    value |-> << >>, draws |-> 1 ]

generateBase64Salt(seed) == generate("salt", "base64", NoLength, seed)

generateBase64SecretKey(seed) == generate("secretKey", "base64", NoLength, seed)

\* generateWebCryptoIV(length): validateLength, then generateSecureUint8Array,
\* which validates the length again and fills the array
generateWebCryptoIV(length, seed) ==
  LET finalLength == IF length.kind = "undefined" THEN Number(WEB_CRYPTO_IV) ELSE length
      error == validateLength(finalLength, "generateWebCryptoIV")
      again == validateLength(finalLength, "generateSecureUint8Array")
  IN  IF error # NoError THEN [ error |-> error, value |-> << >>, draws |-> 0 ]
      ELSE IF again # NoError THEN [ error |-> again, value |-> << >>, draws |-> 0 ]
      ELSE [ error |-> NoError,
             value |-> RandomBytes(seed, finalLength.num \div finalLength.den),
             draws |-> 1 ]

(***************************************************************************)
(* State                                                                    *)
(***************************************************************************)

VARIABLES
  files,      \* the file system: path -> file content, or NoFile
  cpc,        \* CryptoService: the step the encrypt / decrypt call in progress is at
  cin,        \* its arguments
  cloc,       \* its local variables
  prims,      \* the library primitives it has invoked so far, in order
  cres,       \* what the last finished call returned or threw
  lastEnc,    \* the last envelope encrypt returned, with its plaintext and secret
  fileLocks,  \* SecretFileManager.fileLocks: path -> the call whose handle is registered
  calls,      \* the storeKeyInFile / getKeyValue calls: arguments, position, locals
  microtasks, \* the calls whose continuation is queued on the microtask queue, in order
  log,        \* the entries EncryptionValidator has handed to the logger, in order
  isInitialized, \* AuthenticationFileManager.isInitialized
  authStateFile, \* the content of the auth state file, or NoFile
  authWrites     \* the number of writes of the auth state file completed so far

cryptoVars == << cpc, cin, cloc, prims, cres, lastEnc >>

storeVars == << fileLocks, calls, microtasks >>

authVars == << isInitialized, authStateFile, authWrites >>

vars == << files, cpc, cin, cloc, prims, cres, lastEnc, fileLocks, calls, microtasks, log,
           isInitialized, authStateFile, authWrites >>

\* EnvPathResolver.getSecretFilePath() and the environment's secret-key variable
SecretPath == "envs/.env"
SecretKeyVariable == << "K" >>

EnvPath == "envs/.env.dev"

Paths == { SecretPath, EnvPath }

\* the secrets a secret file may hold: two of 16 characters and one too short
Secret1 == << "s","e","c","r","e","t","0","1","s","e","c","r","e","t","0","1" >>
Secret2 == << "s","e","c","r","e","t","0","2","s","e","c","r","e","t","0","2" >>
ShortSecret == << "s","h","o","r","t","7","7" >>
EmptySecret == << >>
Secrets == { Secret1, Secret2, ShortSecret, EmptySecret }

\* the plaintexts handed to encrypt
Plaintexts == { << >>, << "h", "i" >>, << "a", "b", "c" >> }

\* no envelope returned yet
NoEnvelope == [ plain |-> << >>, secret |-> << >>, envelope |-> << >> ]

EmptyLocals ==
  [ secretKey |-> Undefined, salt |-> Undefined, iv |-> Undefined,
    cipherText |-> Undefined, receivedHmac |-> Undefined,
    encryptionKey |-> NoKey, hmacKey |-> NoKey, stage |-> "none" ]

\* the envelope handed to decrypt unchanged
NoMutation == [ kind |-> "none", field |-> 0, pos |-> 0, delta |-> 0, extra |-> 1 ]

NoCall == [ op |-> "none", value |-> << >>, mutation |-> NoMutation ]

NoResult == [ op |-> "none", status |-> "none", value |-> << >>, error |-> NoError ]

Returned(op, value) == [ op |-> op, status |-> "returned", value |-> value, error |-> NoError ]

Threw(op, error) == [ op |-> op, status |-> "threw", value |-> << >>, error |-> error ]

(***************************************************************************)
(* Reading the secret file                                                  *)
(***************************************************************************)

\* readEnvFileContent: ensureEnvFileExists writes an empty file when there is
\* none, then the content is read
ContentAfterEnsure(file) == IF file = NoFile THEN << >> ELSE file

\* CryptoEnvironment.getSecretKeyFromEnvironment, given the content read
getSecretKeyFromEnvironment(secretKeyVariable, fileContent) ==
  LET secretKeyValue == extractKeyValue(fileContent, secretKeyVariable)
  IN  IF Falsy(secretKeyValue)
      THEN [ error |-> logAndThrow("CryptoEngine.getSecretKeyFromEnvironment",
                         << "Secret key variable not found in environment file",
                            secretKeyVariable >>),
             value |-> secretKeyValue ]
      ELSE [ error |-> NoError, value |-> secretKeyValue ]

\* the first error among the three checks both encrypt and decrypt start with
validateEncryptionPrerequisites(value, secretKeyVariable, fileContent, operation) ==
  LET actualSecretKey == getSecretKeyFromEnvironment(secretKeyVariable, fileContent)
      keyError        == validateSecretKey(actualSecretKey.value)
      inputError      == validateInputs(value, actualSecretKey.value, operation)
  IN  [ error |-> IF actualSecretKey.error # NoError THEN actualSecretKey.error
                  ELSE IF keyError # NoError THEN keyError
                  ELSE inputError,
        secretKey |-> actualSecretKey.value ]

(***************************************************************************)
(* The strings handed to decrypt: an envelope encrypt returned, as it is or *)
(* changed in one place, with or without one more token appended.           *)
(***************************************************************************)

\* how far a tampered character is moved along the base64 alphabet
MaxDelta == 1

\* a base64 character other than c (for '=', a base64 character)
TamperChar(c, delta) ==
  IF c \in B64Chars THEN B64Alphabet[((B64Val[c] + delta) % 64) + 1]
  ELSE B64Alphabet[delta + 1]

ExtraTokens == << << >>, << ":" >>, << ":", "A", "A", "A", "A" >> >>

\* the single-place changes of an envelope, with extra token e appended
MutationsWith(envelope, e) ==
  LET t == Split(envelope, SEPARATOR)
  IN  { [ kind |-> k, field |-> 0, pos |-> 0, delta |-> 0, extra |-> e ] :
          k \in { "none", "prefix", "version", "drop" } }
      \cup
      { [ kind |-> k, field |-> f, pos |-> 0, delta |-> 0, extra |-> e ] :
          k \in { "empty", "nonb64", "badlen" }, f \in 3..6 }
      \cup
      UNION { { [ kind |-> "tamper", field |-> f, pos |-> p, delta |-> d, extra |-> e ] :
                  p \in 1..Len(t[f]), d \in 1..MaxDelta } : f \in { 5, 6 } }
      \cup
      { [ kind |-> "forge", field |-> 5, pos |-> p, delta |-> d, extra |-> e ] :
          p \in { 1, Len(t[5]) }, d \in 1..MaxDelta }

Mutations(envelope) ==
  MutationsWith(envelope, 1) \cup MutationsWith(envelope, 3)
    \cup { [ kind |-> k, field |-> 0, pos |-> 0, delta |-> 0, extra |-> 2 ] :
             k \in { "none", "blank" } }

\* the envelope changed as m says; "forge" is a ciphertext changed by a holder of
\* the secret, who recomputes the MAC over it
Mutate(envelope, m, secret) ==
  LET t == Split(envelope, SEPARATOR)
      f == m.field
      changed ==
        CASE m.kind = "none"    -> t
          [] m.kind = "blank"   -> << >>
          [] m.kind = "prefix"  -> [ t EXCEPT ![1] = << "X", "N", "C", "2" >> ]
          [] m.kind = "version" -> [ t EXCEPT ![2] = << "v", "2" >> ]
          [] m.kind = "drop"    -> SubSeq(t, 1, Len(t) - 1)
          [] m.kind = "empty"   -> [ t EXCEPT ![f] = << >> ]
          [] m.kind = "nonb64"  -> [ t EXCEPT ![f][1] = "#" ]
          [] m.kind = "badlen"  -> [ t EXCEPT ![f] = @ \o << "A" >> ]
          [] m.kind = "tamper"  -> [ t EXCEPT ![f][m.pos] = TamperChar(@, m.delta) ]
          [] m.kind = "forge"   ->
               LET ct == [ t[5] EXCEPT ![m.pos] = TamperChar(@, m.delta) ]
                   k  == deriveKeysWithArgon2(secret, t[3]).hmacKey
               IN  [ t EXCEPT ![5] = ct,
                              ![6] = computeHMAC(k, prepareHMACData(t[3], t[4], ct)) ]
  IN  IF m.kind = "blank" THEN << >>
      ELSE Join(changed, << SEPARATOR >>) \o ExtraTokens[m.extra]

(***************************************************************************)
(* CryptoService.encrypt                                                    *)
(***************************************************************************)

\* encrypt(value, secretKeyVariable) up to its first await on the key derivation:
\* validateEncryptionPrerequisites
EncryptCall(value) ==
  /\ cpc = "idle"
  /\ LET content == ContentAfterEnsure(files[SecretPath])
         pre     == validateEncryptionPrerequisites(value, SecretKeyVariable, content,
                                                    "encrypt")
     IN  /\ files' = [ files EXCEPT ![SecretPath] = content ]
         /\ cin' = [ op |-> "encrypt", value |-> value, mutation |-> NoMutation ]
         /\ prims' = << >>
         /\ IF pre.error # NoError
            THEN /\ cpc' = "settled"
                 /\ cloc' = [ EmptyLocals EXCEPT !.secretKey = pre.secretKey,
                                                 !.stage = "validateEncryptionPrerequisites" ]
                 /\ cres' = Threw("encrypt", pre.error)
            ELSE /\ cpc' = "generateEncryptionComponents"
                 /\ cloc' = [ EmptyLocals EXCEPT !.secretKey = pre.secretKey,
                                                 !.stage = "validateEncryptionPrerequisites" ]
                 /\ cres' = NoResult
  /\ UNCHANGED lastEnc
  /\ UNCHANGED storeVars
  /\ UNCHANGED log
  /\ UNCHANGED authVars

\* generateEncryptionComponents: a fresh salt and IV, then the two derived keys
GenerateEncryptionComponents ==
  /\ cpc = "generateEncryptionComponents"
  /\ \E saltSeed \in 1..NumSeeds, ivSeed \in 1..NumSeeds :
       LET salt == generateBase64Salt(saltSeed)
           iv   == generateWebCryptoIV(NoLength, ivSeed)
           keys == deriveKeysWithArgon2(cloc.secretKey, salt.value)
           error == IF salt.error # NoError THEN salt.error
                    ELSE IF iv.error # NoError THEN iv.error
                    ELSE keys.error
       IN  IF error # NoError
           THEN /\ cpc' = "settled"
                /\ cres' = Threw("encrypt", error)
                /\ cloc' = [ cloc EXCEPT !.stage = "generateEncryptionComponents" ]
                /\ prims' = prims
           ELSE /\ cpc' = "createEncryptedPayload"
                /\ cres' = cres
                /\ cloc' = [ cloc EXCEPT !.salt = salt.value, !.iv = iv.value,
                                         !.encryptionKey = keys.encryptionKey,
                                         !.hmacKey = keys.hmacKey,
                                         !.stage = "generateEncryptionComponents" ]
                /\ prims' = prims \o << "randomBytes", "randomBytes", "argon2.hash" >>
  /\ UNCHANGED << files, cin, lastEnc >>
  /\ UNCHANGED storeVars
  /\ UNCHANGED log
  /\ UNCHANGED authVars

\* createEncryptedPayload, and encrypt returns the formatted string
CreateEncryptedPayload ==
  /\ cpc = "createEncryptedPayload"
  /\ LET raw == createEncryptedPayload(cin.value, cloc.salt, cloc.iv,
                                       cloc.encryptionKey, cloc.hmacKey)
     IN  /\ cres' = Returned("encrypt", raw)
         /\ lastEnc' = [ plain |-> cin.value, secret |-> cloc.secretKey, envelope |-> raw ]
  /\ cpc' = "settled"
  /\ cloc' = [ cloc EXCEPT !.stage = "createEncryptedPayload" ]
  /\ prims' = prims \o << "subtle.encrypt", "subtle.sign" >>
  /\ UNCHANGED << files, cin >>
  /\ UNCHANGED storeVars
  /\ UNCHANGED log
  /\ UNCHANGED authVars

(***************************************************************************)
(* CryptoService.decrypt                                                    *)
(***************************************************************************)

\* decrypt(encryptedData, secretKeyVariable) up to its try block: the secret is
\* resolved and checked, the input is checked for emptiness
DecryptCall(m) ==
  /\ cpc = "idle"
  /\ lastEnc # NoEnvelope
  /\ LET encryptedData == Mutate(lastEnc.envelope, m, lastEnc.secret)
         content == ContentAfterEnsure(files[SecretPath])
         pre     == validateEncryptionPrerequisites(encryptedData, SecretKeyVariable,
                                                    content, "decrypt")
     IN  /\ files' = [ files EXCEPT ![SecretPath] = content ]
         /\ cin' = [ op |-> "decrypt", value |-> encryptedData, mutation |-> m ]
         /\ prims' = << >>
         /\ IF pre.error # NoError
            THEN /\ cpc' = "settled"
                 /\ cloc' = [ EmptyLocals EXCEPT !.secretKey = pre.secretKey,
                                                 !.stage = "validateInputs" ]
                 /\ cres' = Threw("decrypt", pre.error)
            ELSE /\ cpc' = "parseEncryptedData"
                 /\ cloc' = [ EmptyLocals EXCEPT !.secretKey = pre.secretKey,
                                                 !.stage = "validateInputs" ]
                 /\ cres' = NoResult
  /\ UNCHANGED lastEnc
  /\ UNCHANGED storeVars
  /\ UNCHANGED log
  /\ UNCHANGED authVars

ParseEncryptedData ==
  /\ cpc = "parseEncryptedData"
  /\ LET parsed == parseEncryptedData(cin.value)
     IN  IF parsed.error # NoError
         THEN /\ cpc' = "settled"
              /\ cres' = Threw("decrypt", parsed.error)
              /\ cloc' = [ cloc EXCEPT !.stage = "parseEncryptedData" ]
         ELSE /\ cpc' = "deriveKeysWithArgon2"
              /\ cres' = cres
              /\ cloc' = [ cloc EXCEPT !.salt = parsed.salt, !.iv = parsed.iv,
                                       !.cipherText = parsed.cipherText,
                                       !.receivedHmac = parsed.receivedHmac,
                                       !.stage = "parseEncryptedData" ]
  /\ UNCHANGED << files, cin, prims, lastEnc >>
  /\ UNCHANGED storeVars
  /\ UNCHANGED log
  /\ UNCHANGED authVars

DeriveKeysWithArgon2 ==
  /\ cpc = "deriveKeysWithArgon2"
  /\ LET keys == deriveKeysWithArgon2(cloc.secretKey, cloc.salt)
     IN  IF keys.error # NoError
         THEN /\ cpc' = "settled"
              /\ cres' = Threw("decrypt", keys.error)
              /\ cloc' = [ cloc EXCEPT !.stage = "deriveKeysWithArgon2" ]
              /\ prims' = prims
         ELSE /\ cpc' = "verifyHMACIntegrity"
              /\ cres' = cres
              /\ cloc' = [ cloc EXCEPT !.encryptionKey = keys.encryptionKey,
                                       !.hmacKey = keys.hmacKey,
                                       !.stage = "deriveKeysWithArgon2" ]
              /\ prims' = Append(prims, "argon2.hash")
  /\ UNCHANGED << files, cin, lastEnc >>
  /\ UNCHANGED storeVars
  /\ UNCHANGED log
  /\ UNCHANGED authVars

VerifyHMACIntegrity ==
  /\ cpc = "verifyHMACIntegrity"
  /\ LET error == verifyHMACIntegrity(cloc.salt, cloc.iv, cloc.cipherText,
                                      cloc.receivedHmac, cloc.hmacKey)
     IN  IF error # NoError
         THEN /\ cpc' = "settled"
              /\ cres' = Threw("decrypt", error)
         ELSE /\ cpc' = "performDecryption"
              /\ cres' = cres
  /\ cloc' = [ cloc EXCEPT !.stage = "verifyHMACIntegrity" ]
  /\ prims' = Append(prims, "subtle.sign")
  /\ UNCHANGED << files, cin, lastEnc >>
  /\ UNCHANGED storeVars
  /\ UNCHANGED log
  /\ UNCHANGED authVars

\* performDecryption, and decrypt returns the decoded plaintext
PerformDecryption ==
  /\ cpc = "performDecryption"
  /\ LET decrypted == performDecryption(cloc.iv, cloc.encryptionKey, cloc.cipherText)
     IN  cres' = IF decrypted.ok THEN Returned("decrypt", TextDecode(decrypted.bytes))
                 ELSE Threw("decrypt", OperationError)
  /\ cpc' = "settled"
  /\ cloc' = [ cloc EXCEPT !.stage = "performDecryption" ]
  /\ prims' = Append(prims, "subtle.decrypt")
  /\ UNCHANGED << files, cin, lastEnc >>
  /\ UNCHANGED storeVars
  /\ UNCHANGED log
  /\ UNCHANGED authVars

\* the caller's await on the settled promise resumes: the call's arguments,
\* locals and result are gone
Await ==
  /\ cpc = "settled"
  /\ cpc' = "idle"
  /\ cin' = NoCall
  /\ cloc' = EmptyLocals
  /\ prims' = << >>
  /\ cres' = NoResult
  /\ UNCHANGED << files, lastEnc >>
  /\ UNCHANGED storeVars
  /\ UNCHANGED log
  /\ UNCHANGED authVars

\* SecretFileManager.storeKeyInFile(SecretPath, SecretKeyVariable, secret) by the
\* environment, between two CryptoService calls
StoreSecret(secret) ==
  /\ cpc = "idle"
  /\ files' = [ files EXCEPT ![SecretPath] =
                  updateEnvironmentKey(ContentAfterEnsure(@), SecretKeyVariable, secret) ]
  /\ UNCHANGED cryptoVars
  /\ UNCHANGED storeVars
  /\ UNCHANGED log
  /\ UNCHANGED authVars

\* the storeKeyInFile / getKeyValue calls of one process
MaxCalls == 3

CallIds == 1..MaxCalls

KeyNames == { << "A" >>, << "B" >> }

Digits == << "0", "1", "2", "3", "4", "5", "6", "7", "8", "9" >>

\* the value call c stores: its own
CallValue(c) == << Digits[(c % 10) + 1] >>

\* fileLocks.get(filePath) is undefined
NoLock == 0

NotSettled == [ settled |-> FALSE, value |-> << >>, error |-> NoError ]

Settled(value) == [ settled |-> TRUE, value |-> value, error |-> NoError ]

Rejected(error) == [ settled |-> TRUE, value |-> << >>, error |-> error ]

\* the error of a file operation that failed
IoError == [ name |-> "Error", message |-> << "EIO" >> ]

\* the error ensureSecretKeyExists raises through logAndThrow
SecretKeyNotFound ==
  [ name |-> "Error", message |-> << "S", "e", "c", "r", "e", "t", " ", "k", "e", "y", " ", "v", "a", "r", "i", "a", "b", "l", "e", " ", "n", "o", "t", " ", "f", "o", "u", "n", "d" >> ]

NotIssued ==
  [ kind |-> "none", filePath |-> "", keyName |-> << >>, value |-> << >>,
    skipIfExists |-> FALSE, pc |-> "unissued", existingLock |-> NoLock,
    updatedContent |-> << >>, stage |-> "", result |-> NotSettled ]

InitStoreVars ==
  /\ fileLocks = [ p \in Paths |-> NoLock ]
  /\ calls = [ c \in CallIds |-> NotIssued ]
  /\ microtasks = << >>
  /\ log = << >>
  /\ isInitialized = FALSE
  /\ authStateFile = NoFile
  /\ authWrites = 0

InitCrypto ==
  /\ files \in { f \in [ Paths -> { NoFile, formatEnvironmentKeyValue(SecretKeyVariable, Secret1) } ] :
                  \A p \in Paths \ { SecretPath } : f[p] = NoFile }
  /\ cpc = "idle"
  /\ cin = NoCall
  /\ cloc = EmptyLocals
  /\ prims = << >>
  /\ cres = NoResult
  /\ lastEnc = NoEnvelope
  /\ InitStoreVars

NextCrypto ==
  \/ \E value \in Plaintexts : EncryptCall(value)
  \/ GenerateEncryptionComponents
  \/ CreateEncryptedPayload
  \/ \E m \in (IF lastEnc = NoEnvelope THEN { } ELSE Mutations(lastEnc.envelope)) :
       DecryptCall(m)
  \/ ParseEncryptedData
  \/ DeriveKeysWithArgon2
  \/ VerifyHMACIntegrity
  \/ PerformDecryption
  \/ Await
  \/ \E secret \in Secrets : StoreSecret(secret)

SpecCrypto == InitCrypto /\ [][NextCrypto]_vars

(***************************************************************************)
(* SecureKeyGenerator called with a length                                  *)
(***************************************************************************)

\* the lengths handed to the generator: integers around and on both limits, a
\* fraction, NaN, Infinity, and no length
Lengths ==
  { Number(n) : n \in { -1, 0, MIN_SECURE_LENGTH - 1, MIN_SECURE_LENGTH, WEB_CRYPTO_IV,
                        MAX_REASONABLE_LENGTH, MAX_REASONABLE_LENGTH + 1 } }
    \cup { [ kind |-> "number", num |-> 17, den |-> 2 ],
           [ kind |-> "NaN", num |-> 0, den |-> 1 ],
           [ kind |-> "Infinity", num |-> 1, den |-> 1 ],
           NoLength }

\* SecureKeyGenerator.generate({ type, outputFormat, length })
Generate(type, outputFormat, length, seed) ==
  /\ cpc = "idle"
  /\ cin' = [ op |-> "generate", value |-> << type, outputFormat, length >>,
              mutation |-> NoMutation ]
  /\ \E r \in { generate(type, outputFormat, length, seed) } :
       /\ cres' = IF r.error = NoError THEN Returned("generate", r.value)
                  ELSE Threw("generate", r.error)
       /\ prims' = [ k \in 1..r.draws |-> "randomBytes" ]
  /\ cpc' = "settled"
  /\ UNCHANGED << files, cloc, lastEnc >>
  /\ UNCHANGED storeVars
  /\ UNCHANGED log
  /\ UNCHANGED authVars

\* SecureKeyGenerator.generateWebCryptoIV(length)
GenerateWebCryptoIV(length, seed) ==
  /\ cpc = "idle"
  /\ cin' = [ op |-> "generateWebCryptoIV", value |-> << "iv", "buffer", length >>,
              mutation |-> NoMutation ]
  /\ \E r \in { generateWebCryptoIV(length, seed) } :
       /\ cres' = IF r.error = NoError THEN Returned("generateWebCryptoIV", r.value)
                  ELSE Threw("generateWebCryptoIV", r.error)
       /\ prims' = [ k \in 1..r.draws |-> "getRandomValues" ]
  /\ cpc' = "settled"
  /\ UNCHANGED << files, cloc, lastEnc >>
  /\ UNCHANGED storeVars
  /\ UNCHANGED log
  /\ UNCHANGED authVars

NextGenerator ==
  \/ \E type \in { "salt", "secretKey", "iv", "random" },
        outputFormat \in { "base64", "hex", "buffer" },
        length \in Lengths, seed \in 1..NumSeeds :
       Generate(type, outputFormat, length, seed)
  \/ \E length \in Lengths, seed \in 1..NumSeeds : GenerateWebCryptoIV(length, seed)
  \/ Await

SpecGenerator == InitCrypto /\ [][NextGenerator]_vars

(***************************************************************************)
(* CryptoService.encryptMultiple and decryptMultiple: Promise.all over the  *)
(* single calls, which run side by side and settle in any order.            *)
(***************************************************************************)

\* the value of a one-element set: a value computed once and then named
Only(S) == CHOOSE x \in S : TRUE

generateEncryptionComponents_KeptSalt(secretKey, saltSeed, ivSeed) ==
  Only({ Only({ [ error |-> IF salt.error # NoError THEN salt.error
                            ELSE IF iv.error # NoError THEN iv.error
                            ELSE keys.error,
                  salt |-> salt.value, iv |-> iv.value,
                  encryptionKey |-> keys.encryptionKey, hmacKey |-> keys.hmacKey ] :
                keys \in { deriveKeysWithArgon2(secretKey, salt.value) } }) :
         salt \in { generateBase64Salt(1) }, iv \in { generateWebCryptoIV(NoLength, 1) } })

\* generateEncryptionComponents with the seeds its salt and IV are drawn from
generateEncryptionComponents(secretKey, saltSeed, ivSeed) ==
  Only({ Only({ [ error |-> IF salt.error # NoError THEN salt.error
                            ELSE IF iv.error # NoError THEN iv.error
                            ELSE keys.error,
                  salt |-> salt.value, iv |-> iv.value,
                  encryptionKey |-> keys.encryptionKey, hmacKey |-> keys.hmacKey ] :
                keys \in { deriveKeysWithArgon2(secretKey, salt.value) } }) :
         salt \in { generateBase64Salt(saltSeed) }, iv \in { generateWebCryptoIV(NoLength, ivSeed) } })

\* CryptoService.encrypt from call to settlement, with the seeds its salt and
\* IV are drawn from
encrypt(value, secretKeyVariable, fileContent, saltSeed, ivSeed) ==
  Only({ IF pre.error # NoError THEN Threw("encrypt", pre.error)
         ELSE Only({ IF c.error # NoError THEN Threw("encrypt", c.error)
                     ELSE Returned("encrypt",
                                   createEncryptedPayload(value, c.salt, c.iv,
                                                          c.encryptionKey, c.hmacKey)) :
                     c \in { generateEncryptionComponents(pre.secretKey, saltSeed,
                                                          ivSeed) } }) :
         pre \in { validateEncryptionPrerequisites(value, secretKeyVariable,
                                                   fileContent, "encrypt") } })

\* the try block of CryptoService.decrypt after parseEncryptedData
decryptParsed(parsed, resolvedSecretKey) ==
  Only({ IF keys.error # NoError THEN Threw("decrypt", keys.error)
         ELSE Only({ IF macError # NoError THEN Threw("decrypt", macError)
                     ELSE Only({ IF decrypted.ok
                                 THEN Returned("decrypt", TextDecode(decrypted.bytes))
                                 ELSE Threw("decrypt", OperationError) :
                                 decrypted \in { performDecryption(parsed.iv,
                                                   keys.encryptionKey,
                                                   parsed.cipherText) } }) :
                     macError \in { verifyHMACIntegrity(parsed.salt, parsed.iv,
                                      parsed.cipherText, parsed.receivedHmac,
                                      keys.hmacKey) } }) :
         keys \in { deriveKeysWithArgon2(resolvedSecretKey, parsed.salt) } })

\* CryptoService.decrypt from call to settlement
decrypt(encryptedData, secretKeyVariable, fileContent) ==
  Only({ IF pre.error # NoError THEN Threw("decrypt", pre.error)
         ELSE Only({ IF parsed.error # NoError THEN Threw("decrypt", parsed.error)
                     ELSE decryptParsed(parsed, pre.secretKey) :
                     parsed \in { parseEncryptedData(encryptedData) } }) :
         pre \in { validateEncryptionPrerequisites(encryptedData, secretKeyVariable,
                                                   fileContent, "decrypt") } })

\* the longest list handed to encryptMultiple or decryptMultiple
MaxBatch == 2

Batches(inputs) == UNION { [ 1..n -> inputs ] : n \in 0..MaxBatch }

\* the strings handed to decryptMultiple: two envelopes made under Secret1, and
\* the first with one character of its ciphertext changed
SampleEnvelope(value, seed) ==
  encrypt(value, SecretKeyVariable, formatEnvironmentKeyValue(SecretKeyVariable, Secret1),
          seed, seed).value

EncryptedValues ==
  { SampleEnvelope(<< "h", "i" >>, 1), SampleEnvelope(<< "a", "b", "c" >>, NumSeeds),
    Mutate(SampleEnvelope(<< "h", "i" >>, 1),
           [ kind |-> "tamper", field |-> 5, pos |-> 1, delta |-> 1, extra |-> 1 ],
           Secret1) }

\* the promise of one element of the list, before it settles
PendingElement ==
  [ status |-> "pending", value |-> << >>, error |-> NoError, saltSeed |-> 0, ivSeed |-> 0 ]

Rejections(promises) == { i \in DOMAIN promises : promises[i].status = "rejected" }

PromiseAll_PartialResults(op, promises) ==
  IF \A i \in DOMAIN promises : promises[i].status # "pending"
  THEN Returned(op, [ i \in DOMAIN promises |-> promises[i].value ])
  ELSE NoResult

\* Promise.all over the promises of the elements: rejected with the error of
\* the element that rejected, fulfilled with the values in the order of the list
\* once every element is fulfilled, pending otherwise
PromiseAll(op, promises) ==
  IF Rejections(promises) # { }
  THEN Threw(op, promises[CHOOSE i \in Rejections(promises) : TRUE].error)
  ELSE IF \A i \in DOMAIN promises : promises[i].status = "fulfilled"
  THEN Returned(op, [ i \in DOMAIN promises |-> promises[i].value ])
  ELSE NoResult

\* encryptMultiple(values, secretKeyVariable): every encrypt is called, in the
\* order of the list, and runs to its first await
EncryptMultiple(values) ==
  /\ cpc = "idle"
  /\ files' = [ files EXCEPT ![SecretPath] =
                  IF values = << >> THEN @ ELSE ContentAfterEnsure(@) ]
  /\ cin' = [ op |-> "encryptMultiple", value |-> values, mutation |-> NoMutation ]
  /\ cloc' = [ i \in DOMAIN values |-> PendingElement ]
  /\ cres' = PromiseAll("encryptMultiple", cloc')
  /\ cpc' = IF cres' = NoResult THEN "pending" ELSE "settled"
  /\ prims' = << >>
  /\ UNCHANGED lastEnc
  /\ UNCHANGED storeVars
  /\ UNCHANGED log
  /\ UNCHANGED authVars

\* decryptMultiple(encryptedValues, secretKeyVariable): an empty list is returned
\* at once; otherwise every decrypt is called, in the order of the list
DecryptMultiple(encryptedValues) ==
  /\ cpc = "idle"
  /\ files' = [ files EXCEPT ![SecretPath] =
                  IF encryptedValues = << >> THEN @ ELSE ContentAfterEnsure(@) ]
  /\ cin' = [ op |-> "decryptMultiple", value |-> encryptedValues, mutation |-> NoMutation ]
  /\ cloc' = [ i \in DOMAIN encryptedValues |-> PendingElement ]
  /\ cres' = IF Len(encryptedValues) = 0 THEN Returned("decryptMultiple", << >>)
             ELSE PromiseAll("decryptMultiple", cloc')
  /\ cpc' = IF cres' = NoResult THEN "pending" ELSE "settled"
  /\ prims' = << >>
  /\ UNCHANGED lastEnc
  /\ UNCHANGED storeVars
  /\ UNCHANGED log
  /\ UNCHANGED authVars

\* the call of element i settles; Promise.all settles with it when it is the
\* first to reject or the last to fulfil, and a settled Promise.all stays as it is
SettleElement(i, saltSeed, ivSeed) ==
  /\ cpc \in { "pending", "settled" }
  /\ cin.op \in { "encryptMultiple", "decryptMultiple" }
  /\ i \in DOMAIN cloc
  /\ cloc[i].status = "pending"
  /\ \E r \in { IF cin.op = "encryptMultiple"
                THEN encrypt(cin.value[i], SecretKeyVariable,
                             ContentAfterEnsure(files[SecretPath]), saltSeed, ivSeed)
                ELSE decrypt(cin.value[i], SecretKeyVariable,
                             ContentAfterEnsure(files[SecretPath])) } :
       \E promises \in { [ cloc EXCEPT ![i] =
                             [ status |-> IF r.status = "returned" THEN "fulfilled"
                                          ELSE "rejected",
                               value |-> r.value, error |-> r.error,
                               saltSeed |-> saltSeed, ivSeed |-> ivSeed ] ] } :
         /\ cloc' = promises
         /\ cres' = IF cpc = "pending" THEN PromiseAll(cin.op, promises) ELSE cres
         /\ cpc' = IF cres' = NoResult THEN "pending" ELSE "settled"
  /\ prims' = Append(prims, i)
  /\ UNCHANGED << files, cin, lastEnc >>
  /\ UNCHANGED storeVars
  /\ UNCHANGED log
  /\ UNCHANGED authVars

NextBatch ==
  \/ \E values \in Batches(Plaintexts) : EncryptMultiple(values)
  \/ \E encryptedValues \in Batches(EncryptedValues) : DecryptMultiple(encryptedValues)
  \/ \E i \in 1..MaxBatch, saltSeed \in 1..NumSeeds, ivSeed \in 1..NumSeeds :
       SettleElement(i, saltSeed, ivSeed)

SpecBatch == InitCrypto /\ [][NextBatch]_vars

(***************************************************************************)
(* EncryptionValidator.validateEncryption and what it hands to the logger.  *)
(* A log entry is a level, the fixed text of its message and the values     *)
(* interpolated into it. The entries of ErrorHandler pass through the       *)
(* sanitizer of ErrorAnalyzer: they are recorded without their values.      *)
(***************************************************************************)

\* envVars[envVarName] for envVars = parseEnvironmentContent(content): the value
\* of the last line "key=value" with that key, comments and blank lines skipped
parseEnvironmentContent(content, envVarName) ==
  LET lines == Split(content, NL)
      Key(i) == Trim(Split(Trim(lines[i]), "=")[1])
      hits == { i \in 1..Len(lines) :
                  /\ Trim(lines[i]) # << >>
                  /\ Trim(lines[i])[1] # "#"
                  /\ Len(Split(Trim(lines[i]), "=")) > 1
                  /\ Split(Trim(lines[i]), "=")[1] # << >>
                  /\ Key(i) = envVarName }
  IN  IF hits = { } THEN Undefined
      ELSE LET i == CHOOSE i \in hits : \A j \in hits : j <= i
           IN  Trim(Join(Tail(Split(Trim(lines[i]), "=")), << "=" >>))

\* EncryptionValidator.isEncrypted(value): its result and its log entries
EncryptionValidator_isEncrypted(value) ==
  LET raw == [ level |-> "debug", text |-> "[isEncrypted] Raw value: ",
               values |-> << value >> ]
      parts == Split(Substring(value, Len(PREFIX)), SEPARATOR)
      Invalid(part) ==
        \/ part = << >>
        \/ ~ \E n \in 1..Len(part) :
               /\ \A i \in 1..n : part[i] \in B64Chars
               /\ \A i \in (n + 1)..Len(part) : part[i] = PadChar
  IN  IF Falsy(value) THEN [ result |-> FALSE, log |-> << raw >> ]
      ELSE IF ~StartsWith(value, PREFIX) THEN [ result |-> FALSE, log |-> << raw >> ]
      ELSE IF Len(parts) # EXPECTED_PARTS THEN [ result |-> FALSE, log |-> << raw >> ]
      ELSE IF parts[1] # VERSION THEN [ result |-> FALSE, log |-> << raw >> ]
      ELSE IF \E k \in 2..4 : Invalid(parts[k])
      THEN [ result |-> FALSE,
             log |-> << raw, [ level |-> "error",
                               text |-> "Failed: is invalid base64 or empty",
                               values |-> << >> ] >> ]
      ELSE [ result |-> TRUE, log |-> << raw >> ]

\* validateEncryption(envVarNames) on the environment file of the current
\* environment
ValidateEncryption(envVarNames) ==
  /\ cpc = "idle"
  /\ cin' = [ op |-> "validateEncryption", value |-> envVarNames, mutation |-> NoMutation ]
  /\ IF files[EnvPath] = NoFile
     THEN /\ cres' = Threw("validateEncryption",
                           logAndThrow("loadEnvironmentVariables",
                                       << "Environment file not found", EnvPath >>))
          /\ log' = Append(log, [ level |-> "error", text |-> "Environment file not found",
                                  values |-> << >> ])
     ELSE LET Checked(k) ==
                LET value == parseEnvironmentContent(files[EnvPath], envVarNames[k])
                IN  IF Falsy(value)
                    THEN [ result |-> FALSE,
                           log |-> << [ level |-> "error",
                                        text |-> "Environment variable not found",
                                        values |-> << >> ] >> ]
                    ELSE EncryptionValidator_isEncrypted(value)
              RECURSIVE Entries(_)
              Entries(k) == IF k = 0 THEN << >> ELSE Entries(k - 1) \o Checked(k).log
          IN  /\ cres' = Returned("validateEncryption",
                                  [ k \in 1..Len(envVarNames) |-> Checked(k).result ])
              /\ log' = log \o Entries(Len(envVarNames))
                            \o << [ level |-> "info", text |-> "Encryption validation results: ",
                                    values |-> envVarNames ] >>
  /\ cpc' = "settled"
  /\ UNCHANGED << files, cloc, prims, lastEnc >>
  /\ UNCHANGED storeVars
  /\ UNCHANGED authVars

\* the environment file before validation: absent, or made of the variables A
\* and B, each left out, in plain text, encrypted, or with a damaged envelope
InitValidator ==
  /\ \E a \in { Undefined } \cup (Plaintexts \ { << >> }) \cup EncryptedValues
                  \cup { PREFIX \o VERSION \o << ":", "#", ":", "A", ":", "A", ":", "A" >> },
        b \in { Undefined } \cup (Plaintexts \ { << >> }) :
       files = [ p \in Paths |->
                   IF p = SecretPath THEN NoFile
                   ELSE (IF a = Undefined THEN << >>
                         ELSE formatEnvironmentKeyValue(<< "A" >>, a) \o << NL >>)
                        \o (IF b = Undefined THEN << >>
                            ELSE formatEnvironmentKeyValue(<< "B" >>, b) \o << NL >>) ]
  /\ cpc = "idle"
  /\ cin = NoCall
  /\ cloc = EmptyLocals
  /\ prims = << >>
  /\ cres = NoResult
  /\ lastEnc = NoEnvelope
  /\ InitStoreVars

\* one validation of a list of variable names
NextValidator ==
  \E envVarNames \in Batches({ << "A" >>, << "B" >> }) : ValidateEncryption(envVarNames)

SpecValidator == InitValidator /\ [][NextValidator]_vars

(***************************************************************************)
(* SecretFileManager: storeKeyInFile and getKeyValue calls of one process,  *)
(* interleaved by the event loop.  A call runs without interruption up to   *)
(* its next await.  A continuation of an await on an already settled        *)
(* promise is a microtask; the microtask queue is drained before the        *)
(* completion of any file operation is delivered.                           *)
(***************************************************************************)

\* operation() has started and has not settled: the call is in its
\* read content / update / write file section
InOperation(c) ==
  calls[c].pc \in { "doesFileExist", "writeEmptyFile", "readFile", "writeFile" }

\* call c runs storeKeyInFile: a store call, or generateAndStoreSecretKey in its
\* storeEnvironmentKey
Storing(c) ==
  \/ calls[c].kind = "store"
  \/ calls[c].kind = "generate" /\ calls[c].stage = "storeEnvironmentKey"

\* call c runs getKeyValue past its waitForFileLock: a get call, or
\* generateAndStoreSecretKey in the getKeyValue of verifySecretKeyExists
Reading(c) ==
  \/ calls[c].kind = "get"
  \/ calls[c].kind = "generate" /\ calls[c].stage = "readEnvFileContent"

\* the calls suspended in waitForFileLock on the handle of call c, in the order
\* they began to wait
Waiters(c) ==
  SelectSeq([ d \in 1..MaxCalls |-> d ],
            LAMBDA d : calls[d].pc = "waitForFileLock" /\ calls[d].existingLock = c)

waitForFileLock_AnyPath(kind, filePath, keyName, value, skipIfExists) ==
  LET held == { p \in Paths : fileLocks[p] # NoLock }
      existingLock == IF held = { } THEN NoLock
                      ELSE fileLocks[CHOOSE p \in held : TRUE]
  IN  [ kind |-> kind, filePath |-> filePath, keyName |-> keyName, value |-> value,
        skipIfExists |-> skipIfExists,
        pc |-> IF existingLock # NoLock THEN "waitForFileLock" ELSE "resume",
        existingLock |-> existingLock,
        updatedContent |-> << >>,
        stage |-> IF kind = "generate" THEN "storeEnvironmentKey" ELSE "",
        result |-> NotSettled ]

\* waitForFileLock up to its await: the call suspends on the registered handle,
\* or its continuation is queued
waitForFileLock(kind, filePath, keyName, value, skipIfExists) ==
  [ kind |-> kind, filePath |-> filePath, keyName |-> keyName, value |-> value,
    skipIfExists |-> skipIfExists,
    pc |-> IF fileLocks[filePath] # NoLock THEN "waitForFileLock" ELSE "resume",
    existingLock |-> fileLocks[filePath],
    updatedContent |-> << >>,
    stage |-> IF kind = "generate" THEN "storeEnvironmentKey" ELSE "",
    result |-> NotSettled ]

\* storeKeyInFile(filePath, keyName, value, { skipIfExists }): executeWithFileLock
\* up to its await of waitForFileLock
StoreKeyInFile(c, filePath, keyName, value, skipIfExists) ==
  /\ calls[c].pc = "unissued"
  /\ \A d \in CallIds : d < c => calls[d].pc # "unissued"
  /\ calls' = [ calls EXCEPT ![c] =
                  waitForFileLock("store", filePath, keyName, value, skipIfExists) ]
  /\ microtasks' = IF fileLocks[filePath] # NoLock THEN microtasks
                   ELSE Append(microtasks, c)
  /\ UNCHANGED << files, fileLocks >>
  /\ UNCHANGED cryptoVars
  /\ UNCHANGED log
  /\ UNCHANGED authVars

\* getKeyValue(filePath, keyName) up to its await of waitForFileLock
GetKeyValue(c, filePath, keyName) ==
  /\ calls[c].pc = "unissued"
  /\ \A d \in CallIds : d < c => calls[d].pc # "unissued"
  /\ calls' = [ calls EXCEPT ![c] = waitForFileLock("get", filePath, keyName, << >>, FALSE) ]
  /\ microtasks' = IF fileLocks[filePath] # NoLock THEN microtasks
                   ELSE Append(microtasks, c)
  /\ UNCHANGED << files, fileLocks >>
  /\ UNCHANGED cryptoVars
  /\ UNCHANGED log
  /\ UNCHANGED authVars

\* executeWithFileLock resumes: createFileLock starts operation(), which runs to
\* the fs.stat of doesFileExist, and registers the handle of the operation
CreateFileLock ==
  /\ microtasks # << >>
  /\ LET c == Head(microtasks)
     IN  /\ Storing(c)
         /\ calls' = [ calls EXCEPT ![c].pc = "doesFileExist" ]
         /\ fileLocks' = [ fileLocks EXCEPT ![calls[c].filePath] = c ]
  /\ microtasks' = Tail(microtasks)
  /\ UNCHANGED files
  /\ UNCHANGED cryptoVars
  /\ UNCHANGED log
  /\ UNCHANGED authVars

\* getKeyValue resumes after waitForFileLock: readEnvFileContent runs to the
\* fs.stat of doesFileExist
ResumeGetKeyValue ==
  /\ microtasks # << >>
  /\ LET c == Head(microtasks)
     IN  /\ Reading(c)
         /\ calls' = [ calls EXCEPT ![c].pc = "doesFileExist" ]
  /\ microtasks' = Tail(microtasks)
  /\ UNCHANGED << files, fileLocks >>
  /\ UNCHANGED cryptoVars
  /\ UNCHANGED log
  /\ UNCHANGED authVars

\* CryptoCoordinator.generateAndStoreSecretKey up to the await of
\* storeEnvironmentKey(currentEnvKey, generatedSecretKey, { skipIfExists: true }):
\* the key is generated, and storeKeyInFile on the secret file runs to its
\* await of waitForFileLock
GenerateAndStoreSecretKey(c, seed) ==
  /\ calls[c].pc = "unissued"
  /\ \A d \in CallIds : d < c => calls[d].pc # "unissued"
  /\ LET generatedSecretKey == generateBase64SecretKey(seed)
     IN  IF generatedSecretKey.error # NoError
         THEN /\ calls' = [ calls EXCEPT ![c] =
                             [ NotIssued EXCEPT !.kind = "generate", !.pc = "settled",
                                 !.result = Rejected(generatedSecretKey.error) ] ]
              /\ UNCHANGED microtasks
         ELSE /\ calls' = [ calls EXCEPT ![c] =
                             waitForFileLock("generate", SecretPath, SecretKeyVariable,
                                             generatedSecretKey.value, TRUE) ]
              /\ microtasks' = IF fileLocks[SecretPath] # NoLock THEN microtasks
                               ELSE Append(microtasks, c)
  /\ UNCHANGED << files, fileLocks >>
  /\ UNCHANGED cryptoVars
  /\ UNCHANGED log
  /\ UNCHANGED authVars

\* one await of waitForFileLock met by the continuation at the head of the
\* queue: it suspends on a registered handle, or is queued again, and goes on
\* at stage next
AwaitFileLock(c, next) ==
  /\ calls' = [ calls EXCEPT
                  ![c].stage = next,
                  ![c].pc = IF fileLocks[calls[c].filePath] # NoLock
                            THEN "waitForFileLock" ELSE "resume",
                  ![c].existingLock = fileLocks[calls[c].filePath] ]
  /\ microtasks' = IF fileLocks[calls[c].filePath] # NoLock THEN Tail(microtasks)
                   ELSE Append(Tail(microtasks), c)

\* generateAndStoreSecretKey resumes after storeEnvironmentKey:
\* ensureSecretKeyExists runs to its await of waitForFileLock
EnsureSecretKeyExists ==
  /\ microtasks # << >>
  /\ LET c == Head(microtasks)
     IN  /\ calls[c].kind = "generate"
         /\ calls[c].stage = "ensureSecretKeyExists"
         /\ AwaitFileLock(c, "getKeyValue")
  /\ UNCHANGED << files, fileLocks >>
  /\ UNCHANGED cryptoVars
  /\ UNCHANGED log
  /\ UNCHANGED authVars

\* ensureSecretKeyExists resumes: verifySecretKeyExists calls getKeyValue, which
\* runs to its await of waitForFileLock
VerifySecretKeyExists ==
  /\ microtasks # << >>
  /\ LET c == Head(microtasks)
     IN  /\ calls[c].kind = "generate"
         /\ calls[c].stage = "getKeyValue"
         /\ AwaitFileLock(c, "readEnvFileContent")
  /\ UNCHANGED << files, fileLocks >>
  /\ UNCHANGED cryptoVars
  /\ UNCHANGED log
  /\ UNCHANGED authVars

\* ensureEnvFileExists: fs.stat completes
DoesFileExist(c) ==
  /\ microtasks = << >>
  /\ calls[c].pc = "doesFileExist"
  /\ calls' = [ calls EXCEPT ![c].pc =
                  IF files[calls[c].filePath] = NoFile THEN "writeEmptyFile"
                  ELSE "readFile" ]
  /\ UNCHANGED << files, fileLocks, microtasks >>
  /\ UNCHANGED cryptoVars
  /\ UNCHANGED log
  /\ UNCHANGED authVars

\* ensureEnvFileExists: writeFile(filePath, "") completes
WriteEmptyFile(c) ==
  /\ microtasks = << >>
  /\ calls[c].pc = "writeEmptyFile"
  /\ files' = [ files EXCEPT ![calls[c].filePath] = << >> ]
  /\ calls' = [ calls EXCEPT ![c].pc = "readFile" ]
  /\ UNCHANGED << fileLocks, microtasks >>
  /\ UNCHANGED cryptoVars
  /\ UNCHANGED log
  /\ UNCHANGED authVars

Settle_WaitersStayAsleep(c, outcome) ==
  LET continues == calls[c].kind = "generate" /\ Storing(c) /\ outcome.error = NoError
  IN  /\ calls' = [ calls EXCEPT ![c] =
                      IF continues
                      THEN [ calls[c] EXCEPT !.pc = "resume",
                                            !.stage = "ensureSecretKeyExists" ]
                      ELSE [ calls[c] EXCEPT !.pc = "settled", !.result = outcome ] ]
      /\ IF Storing(c)
         THEN /\ fileLocks' = [ fileLocks EXCEPT ![calls[c].filePath] = NoLock ]
              /\ microtasks' = microtasks \o (IF continues THEN << c >> ELSE << >>)
         ELSE UNCHANGED << fileLocks, microtasks >>

\* the call settles with outcome, a value or an error: a call that runs
\* storeKeyInFile runs the finally of executeWithFileLock, and the calls waiting
\* on its handle are resumed; generateAndStoreSecretKey, when its
\* storeEnvironmentKey returned, does not settle but resumes after them
Settle(c, outcome) ==
  LET continues == calls[c].kind = "generate" /\ Storing(c) /\ outcome.error = NoError
  IN  /\ calls' = [ d \in CallIds |->
                      IF d = c
                      THEN IF continues
                           THEN [ calls[c] EXCEPT !.pc = "resume",
                                                  !.stage = "ensureSecretKeyExists" ]
                           ELSE [ calls[c] EXCEPT !.pc = "settled", !.result = outcome ]
                      ELSE IF Storing(c) /\ calls[d].pc = "waitForFileLock"
                              /\ calls[d].existingLock = c
                      THEN [ calls[d] EXCEPT !.pc = "resume" ]
                      ELSE calls[d] ]
      /\ IF Storing(c)
         THEN /\ fileLocks' = [ fileLocks EXCEPT ![calls[c].filePath] = NoLock ]
              /\ microtasks' = microtasks \o Waiters(c)
                                  \o (IF continues THEN << c >> ELSE << >>)
         ELSE UNCHANGED << fileLocks, microtasks >>

\* what a failed file operation of call c raises: the error of the file system,
\* which verifySecretKeyExists catches so that ensureSecretKeyExists raises its own
Failure(c) ==
  IF calls[c].kind = "generate" /\ Reading(c) THEN SecretKeyNotFound ELSE IoError

\* readFile completes: getKeyValue returns the value of the key; storeKeyInFile
\* returns false for a key to skip, or computes the updated content and writes it
ReadFile(c) ==
  /\ microtasks = << >>
  /\ calls[c].pc = "readFile"
  /\ LET fileContent == files[calls[c].filePath]
     IN  IF calls[c].kind = "get"
         THEN Settle(c, Settled(extractKeyValue(fileContent, calls[c].keyName)))
         ELSE IF Reading(c)
         THEN LET secretKeyValue == extractKeyValue(fileContent, calls[c].keyName)
                  keyExists == secretKeyValue # Undefined /\ Trim(secretKeyValue) # << >>
              IN  IF keyExists THEN Settle(c, Settled(calls[c].value))
                  ELSE Settle(c, Rejected(SecretKeyNotFound))
         ELSE IF shouldSkipExistingKey(fileContent, calls[c].keyName,
                                       calls[c].skipIfExists)
         THEN Settle(c, Settled(<< "false" >>))
         ELSE /\ calls' = [ calls EXCEPT
                              ![c].pc = "writeFile",
                              ![c].updatedContent =
                                 updateEnvironmentKey(fileContent, calls[c].keyName,
                                                      calls[c].value) ]
              /\ UNCHANGED << fileLocks, microtasks >>
  /\ UNCHANGED files
  /\ UNCHANGED cryptoVars
  /\ UNCHANGED log
  /\ UNCHANGED authVars

\* writeUpdatedEnvironmentFile completes: storeKeyInFile returns true
WriteFile(c) ==
  /\ microtasks = << >>
  /\ calls[c].pc = "writeFile"
  /\ files' = [ files EXCEPT ![calls[c].filePath] = calls[c].updatedContent ]
  /\ Settle(c, Settled(<< "true" >>))
  /\ UNCHANGED cryptoVars
  /\ UNCHANGED log
  /\ UNCHANGED authVars

\* ensureEnvFileExists: writeFile(filePath, "") fails; the error is rethrown up
\* to the caller
WriteEmptyFileFails(c) ==
  /\ microtasks = << >>
  /\ calls[c].pc = "writeEmptyFile"
  /\ Settle(c, Rejected(Failure(c)))
  /\ UNCHANGED files
  /\ UNCHANGED cryptoVars
  /\ UNCHANGED log
  /\ UNCHANGED authVars

\* readFile fails; the error is rethrown up to the caller
ReadFileFails(c) ==
  /\ microtasks = << >>
  /\ calls[c].pc = "readFile"
  /\ Settle(c, Rejected(Failure(c)))
  /\ UNCHANGED files
  /\ UNCHANGED cryptoVars
  /\ UNCHANGED log
  /\ UNCHANGED authVars

\* writeUpdatedEnvironmentFile fails; the error is rethrown up to the caller
WriteFileFails(c) ==
  /\ microtasks = << >>
  /\ calls[c].pc = "writeFile"
  /\ Settle(c, Rejected(Failure(c)))
  /\ UNCHANGED files
  /\ UNCHANGED cryptoVars
  /\ UNCHANGED log
  /\ UNCHANGED authVars

InitStore ==
  /\ files \in [ Paths -> { NoFile, formatEnvironmentKeyValue(<< "A" >>, << "0" >>) } ]
  /\ cpc = "idle"
  /\ cin = NoCall
  /\ cloc = EmptyLocals
  /\ prims = << >>
  /\ cres = NoResult
  /\ lastEnc = NoEnvelope
  /\ InitStoreVars

NextStore ==
  \/ \E c \in CallIds, filePath \in Paths, keyName \in KeyNames, skipIfExists \in BOOLEAN :
       StoreKeyInFile(c, filePath, keyName, CallValue(c), skipIfExists)
  \/ \E c \in CallIds, filePath \in Paths, keyName \in KeyNames :
       GetKeyValue(c, filePath, keyName)
  \/ CreateFileLock
  \/ ResumeGetKeyValue
  \/ \E c \in CallIds : DoesFileExist(c)
  \/ \E c \in CallIds : WriteEmptyFile(c)
  \/ \E c \in CallIds : ReadFile(c)
  \/ \E c \in CallIds : WriteFile(c)
  \/ \E c \in CallIds : WriteEmptyFileFails(c)
  \/ \E c \in CallIds : ReadFileFails(c)
  \/ \E c \in CallIds : WriteFileFails(c)

SpecStore == InitStore /\ [][NextStore]_vars

\* the file system with no file but the secret file
InitStoreFair ==
  /\ InitStore
  /\ files[EnvPath] = NoFile

\* the calls of one caller that awaits each call before it makes the next, all
\* on the secret file
StoreValues == { << "1" >>, << "p", "$", "$", "w" >>, << "$", "'" >> }

NextStoreSeq ==
  \/ \E c \in CallIds, keyName \in KeyNames, value \in StoreValues, skipIfExists \in BOOLEAN :
       /\ \A d \in CallIds : calls[d].pc \in { "unissued", "settled" }
       /\ StoreKeyInFile(c, SecretPath, keyName, value, skipIfExists)
  \/ \E c \in CallIds, keyName \in KeyNames :
       /\ \A d \in CallIds : calls[d].pc \in { "unissued", "settled" }
       /\ GetKeyValue(c, SecretPath, keyName)
  \/ CreateFileLock
  \/ ResumeGetKeyValue
  \/ \E c \in CallIds : DoesFileExist(c)
  \/ \E c \in CallIds : WriteEmptyFile(c)
  \/ \E c \in CallIds : ReadFile(c)
  \/ \E c \in CallIds : WriteFile(c)
  \/ \E c \in CallIds : WriteEmptyFileFails(c)
  \/ \E c \in CallIds : ReadFileFails(c)
  \/ \E c \in CallIds : WriteFileFails(c)

SpecStoreSeq == InitStoreFair /\ [][NextStoreSeq]_vars

\* every file operation terminates, and the event loop runs every queued
\* continuation
FairStore ==
  /\ WF_vars(CreateFileLock)
  /\ WF_vars(ResumeGetKeyValue)
  /\ \A c \in CallIds :
       /\ WF_vars(DoesFileExist(c))
       /\ WF_vars(WriteEmptyFile(c) \/ WriteEmptyFileFails(c))
       /\ WF_vars(ReadFile(c) \/ ReadFileFails(c))
       /\ WF_vars(WriteFile(c) \/ WriteFileFails(c))

\* the calls of the fair specification: all on the secret file and on one key
NextStoreFair ==
  \/ \E c \in CallIds, skipIfExists \in BOOLEAN :
       StoreKeyInFile(c, SecretPath, << "A" >>, CallValue(c), skipIfExists)
  \/ \E c \in CallIds : GetKeyValue(c, SecretPath, << "A" >>)
  \/ CreateFileLock
  \/ ResumeGetKeyValue
  \/ \E c \in CallIds : DoesFileExist(c)
  \/ \E c \in CallIds : WriteEmptyFile(c)
  \/ \E c \in CallIds : ReadFile(c)
  \/ \E c \in CallIds : WriteFile(c)
  \/ \E c \in CallIds : WriteEmptyFileFails(c)
  \/ \E c \in CallIds : ReadFileFails(c)
  \/ \E c \in CallIds : WriteFileFails(c)

SpecStoreFair == InitStoreFair /\ [][NextStoreFair]_vars /\ FairStore

\* the secret file before the first key generation: absent, empty, holding the
\* secret-key variable with no value, or holding a secret
InitGenerate ==
  /\ files \in [ Paths -> { NoFile, << >>,
                            formatEnvironmentKeyValue(SecretKeyVariable, << >>),
                            formatEnvironmentKeyValue(SecretKeyVariable, Secret1) } ]
  /\ files[EnvPath] = NoFile
  /\ cpc = "idle"
  /\ cin = NoCall
  /\ cloc = EmptyLocals
  /\ prims = << >>
  /\ cres = NoResult
  /\ lastEnc = NoEnvelope
  /\ InitStoreVars

\* the calls of generateAndStoreSecretKey for one environment
NextGenerate ==
  \/ \E c \in CallIds, seed \in 1..NumSeeds : GenerateAndStoreSecretKey(c, seed)
  \/ CreateFileLock
  \/ EnsureSecretKeyExists
  \/ VerifySecretKeyExists
  \/ ResumeGetKeyValue
  \/ \E c \in CallIds : DoesFileExist(c)
  \/ \E c \in CallIds : WriteEmptyFile(c)
  \/ \E c \in CallIds : ReadFile(c)
  \/ \E c \in CallIds : WriteFile(c)
  \/ \E c \in CallIds : WriteEmptyFileFails(c)
  \/ \E c \in CallIds : ReadFileFails(c)
  \/ \E c \in CallIds : WriteFileFails(c)

SpecGenerate == InitGenerate /\ [][NextGenerate]_vars

(***************************************************************************)
(* Properties of encrypt and decrypt                                        *)
(***************************************************************************)

\* a decrypt / encrypt call has settled and its caller has not resumed yet
DecryptSettled == cpc = "settled" /\ cin.op = "decrypt"
EncryptSettled == cpc = "settled" /\ cin.op = "encrypt"

\* the secret the call resolved passes validateSecretKey
ResolvedValidSecret == cloc.secretKey # Undefined /\ Len(cloc.secretKey) >= 16

\* the text is base64: alphabet characters, then at most two '=', a multiple of 4 long
IsBase64Text(str) ==
  /\ str # << >>
  /\ Len(str) % 4 = 0
  /\ \E n \in 0..2 :
       /\ n <= Len(str)
       /\ \A i \in 1..Len(str) :
            IF i <= Len(str) - n THEN str[i] \in B64Chars ELSE str[i] = "="

\* the envelope: ENC2:, then v1 and four non-empty base64 fields, 5 tokens after the prefix
WellFormedEnvelope(str) ==
  /\ Len(str) >= 5
  /\ SubSeq(str, 1, 5) = << "E", "N", "C", "2", ":" >>
  /\ LET t == Split(SubSeq(str, 6, Len(str)), ":")
     IN  /\ Len(t) = 5
         /\ t[1] = << "v", "1" >>
         /\ \A i \in 2..5 : IsBase64Text(t[i])

\* the one error decrypt is to raise when authentication fails
AuthenticationError ==
  [ name |-> "Error",
    message |-> << "Authentication failed: HMAC mismatch - invalid key or tampered data" >> ]

\* a library primitive that does cryptographic work was invoked in this call
InvokedCrypto ==
  \E i \in 1..Len(prims) : prims[i] \in { "argon2.hash", "subtle.sign", "subtle.decrypt" }

\* the position of primitive p in prims, 0 when it was not invoked
PrimAt(p) ==
  IF \E i \in 1..Len(prims) : prims[i] = p
  THEN CHOOSE i \in 1..Len(prims) : prims[i] = p
  ELSE 0

\* C1: decrypt of the envelope encrypt returned, under the same stored secret,
\* returns the plaintext that was encrypted
C1_RoundTrip ==
  (DecryptSettled /\ cin.mutation = NoMutation /\ cloc.secretKey = lastEnc.secret)
    => (cres.status = "returned" /\ cres.value = lastEnc.plain)

\* C4: decrypt of a malformed string (wrong prefix, version, number of fields, an
\* empty or non-base64 field) raises a validation error and invokes no
\* key derivation, HMAC or AES-GCM primitive
C4_FailFast ==
  (cin.op = "decrypt" /\ ResolvedValidSecret /\ ~WellFormedEnvelope(cin.value))
    => /\ ~InvokedCrypto
       /\ cpc = "settled" =>
            /\ cres.status = "threw"
            /\ cloc.stage \in { "validateInputs", "parseEncryptedData" }

\* C5: the decrypt side accepts a string exactly when it is a well-formed envelope
C5_StructuralValidation ==
  (cin.op = "decrypt" /\ cloc.stage \notin { "none", "validateInputs" })
    => (~(cloc.stage = "parseEncryptedData" /\ cpc = "settled")
          <=> WellFormedEnvelope(cin.value))

\* C6: every string encrypt returns is ENC2, v1 and the four non-empty base64
\* fields salt, iv, ciphertext, mac in this order: six ':'-separated tokens
C6_FormatInvariant ==
  EncryptSettled /\ cres.status = "returned" =>
    LET t == Split(cres.value, ":")
    IN  /\ Len(t) = 6
        /\ t[1] = << "E", "N", "C", "2" >>
        /\ t[2] = << "v", "1" >>
        /\ \A i \in 3..6 : IsBase64Text(t[i])
        /\ t[3] = cloc.salt /\ Len(Base64Decode(t[3])) = 32
        /\ Base64Decode(t[4]) = cloc.iv /\ Len(cloc.iv) = 12
        /\ GcmDecrypt(cloc.encryptionKey, cloc.iv, Base64Decode(t[5]))
             = [ ok |-> TRUE, bytes |-> TextEncode(cin.value) ]
        /\ Base64Decode(t[6])
             = HmacSign(cloc.hmacKey,
                        Base64Decode(t[3]) \o Base64Decode(t[4]) \o Base64Decode(t[5]))

C6_Witness == EncryptSettled /\ cres.status = "returned" /\ Len(cin.value) = 3

\* the MAC embedded in the parsed envelope is the HMAC, under the key derived from
\* the resolved secret and the embedded salt, of salt, iv and ciphertext
EmbeddedMacMatches ==
  LET derived == Argon2Hash(cloc.secretKey, Base64Decode(cloc.salt), 64)
      macKey  == ImportKey(SubSeq(derived, 33, 64), "HMAC")
  IN  Base64Decode(cloc.receivedHmac)
        = HmacSign(macKey, Base64Decode(cloc.salt) \o Base64Decode(cloc.iv)
                             \o Base64Decode(cloc.cipherText))

\* C7: AES-GCM decrypt is invoked only after the HMAC was recomputed and found
\* equal to the embedded MAC; on a mismatch decrypt raises without invoking it
C7_DecryptOrdering ==
  cin.op = "decrypt" =>
    /\ PrimAt("subtle.decrypt") > 0 =>
         /\ PrimAt("subtle.sign") > 0
         /\ PrimAt("subtle.sign") < PrimAt("subtle.decrypt")
         /\ EmbeddedMacMatches
    /\ (cpc = "settled" /\ cloc.receivedHmac # Undefined /\ ~EmbeddedMacMatches) =>
         /\ cres.status = "threw"
         /\ PrimAt("subtle.decrypt") = 0

C7_Witness ==
  /\ DecryptSettled
  /\ PrimAt("subtle.decrypt") > 0
  /\ cres.status = "returned"

\* C8: an authentication failure of decrypt, whether the HMAC comparison or the
\* AES-GCM tag verification failed, raises the same error
C8_GenericAuthFailure ==
  (DecryptSettled /\ cres.status = "threw"
     /\ cloc.stage \in { "verifyHMACIntegrity", "performDecryption" })
    => cres.error = AuthenticationError

\* C9: decrypt of an envelope under a valid secret other than the one it was
\* encrypted under raises the authentication error
C9_WrongKeyRejection ==
  (DecryptSettled /\ cin.mutation = NoMutation /\ ResolvedValidSecret
     /\ cloc.secretKey # lastEnc.secret)
    => (cres.status = "threw" /\ cres.error = AuthenticationError)

\* C10: decrypt of an envelope with one character of the ciphertext or MAC field
\* replaced by another base64 character raises the authentication error
C10_TamperDetection ==
  (DecryptSettled /\ cin.mutation.kind = "tamper" /\ cin.mutation.extra = 1
     /\ cloc.secretKey = lastEnc.secret)
    => (cres.status = "threw" /\ cres.error = AuthenticationError)

(***************************************************************************)
(* Properties of storeKeyInFile and getKeyValue                             *)
(***************************************************************************)

\* the storeKeyInFile calls issued so far
StoreCalls == { c \in CallIds : calls[c].kind = "store" }

\* every call issued so far has settled
AllSettled == \A c \in CallIds : calls[c].pc \in { "unissued", "settled" }

\* C2: of the storeKeyInFile calls on one path, at most one is inside its
\* read content / update / write file section at any time
C2_MutualExclusion ==
  \A c, d \in StoreCalls :
    (c # d /\ calls[c].filePath = calls[d].filePath) => ~(InOperation(c) /\ InOperation(d))

\* C3: once storeKeyInFile calls on one path with pairwise distinct keys, none
\* with skipIfExists, have all resolved, the file holds every key with its value
C3_NoLostUpdates ==
  ( /\ Cardinality(StoreCalls) >= 2
    /\ AllSettled
    /\ \A c \in StoreCalls : calls[c].result.error = NoError
    /\ \A c \in CallIds : calls[c].kind # "get"
    /\ \A c, d \in StoreCalls :
         /\ calls[c].filePath = calls[d].filePath
         /\ ~calls[c].skipIfExists
         /\ c # d => calls[c].keyName # calls[d].keyName )
    => \A c \in StoreCalls :
         extractKeyValue(files[calls[c].filePath], calls[c].keyName) = calls[c].value

(***************************************************************************)
(* Properties of encrypt: validation, batches, freshness                    *)
(***************************************************************************)

\* the value stored under the secret-key variable when the call in progress began
\* (the secret file does not change during a CryptoService call)
StoredSecret ==
  IF files[SecretPath] = NoFile THEN Undefined
  ELSE LET lines == Split(files[SecretPath], "\n")
           hits  == { i \in 1..Len(lines) :
                        Len(lines[i]) >= 2 /\ SubSeq(lines[i], 1, 2) = << "K", "=" >> }
       IN  IF hits = { } THEN Undefined
           ELSE LET i == CHOOSE i \in hits : \A j \in hits : i <= j
                IN  SubSeq(lines[i], 3, Len(lines[i]))

\* C11: encrypt with the secret-key variable absent or empty, with a secret
\* shorter than 16 characters, or with an empty plaintext raises an error, and
\* draws no salt or IV and invokes no key derivation, cipher or HMAC
C11_EncryptValidatesFirst ==
  ( /\ cin.op = "encrypt"
    /\ \/ StoredSecret = Undefined
       \/ Len(StoredSecret) < 16
       \/ cin.value = << >> )
    => /\ cpc = "settled"
       /\ cres.status = "threw"
       /\ prims = << >>
       /\ cloc.salt = Undefined
       /\ cloc.iv = Undefined

C11_Witness ==
  /\ EncryptSettled
  /\ cres.status = "threw"
  /\ StoredSecret = ShortSecret
  /\ cin.value # << >>

(***************************************************************************)
(* Properties of getKeyValue against storeKeyInFile                         *)
(***************************************************************************)

\* the getKeyValue calls issued so far
GetCalls == { c \in CallIds : calls[c].kind = "get" }

\* C12: a getKeyValue issued while a storeKeyInFile on the same path is in
\* flight does not read the file while that store is in its read / update /
\* write section, and returns for the key of the store a stored value, never the
\* value from before the write
C12_ReadAfterWrite ==
  \A g \in GetCalls, c \in StoreCalls :
    (c < g /\ calls[c].filePath = calls[g].filePath) =>
      /\ ~(calls[g].pc = "readFile" /\ InOperation(c))
      /\ ( /\ calls[g].pc = "settled"
           /\ calls[c].pc # "settled"
           /\ ~calls[c].skipIfExists
           /\ calls[c].keyName = calls[g].keyName )
           => calls[g].result.value \in { calls[d].value : d \in StoreCalls }

\* C13: when every file operation terminates, every storeKeyInFile and
\* getKeyValue call issued eventually settles; a registered handle is always
\* that of a pending operation, and a call waiting on the handle of an operation
\* that settles, with a value or an error, resumes without an outcome of its own
C13_LockReleaseAndProgress ==
  /\ [](\A p \in Paths : fileLocks[p] # NoLock => calls[fileLocks[p]].pc # "settled")
  /\ [][ \A c, d \in CallIds :
           ( /\ calls[c].pc # "settled" /\ calls'[c].pc = "settled"
             /\ calls[d].pc = "waitForFileLock" /\ calls[d].existingLock = c )
             => (calls'[d].pc = "resume" /\ calls'[d].result = NotSettled) ]_vars
  /\ \A c \in CallIds : (calls[c].pc # "unissued") ~> (calls[c].pc = "settled")

\* a call that waited on the handle of an operation that failed has returned
C13_Witness ==
  \E c, d \in CallIds :
    /\ calls[c].kind = "store" /\ calls[c].result.error = IoError
    /\ calls[d].existingLock = c
    /\ calls[d].pc = "settled" /\ calls[d].result.error = NoError

(***************************************************************************)
(* Properties of storeKeyInFile calls made one after another                *)
(***************************************************************************)

\* the value the file content gives the key: the rest of the first line that
\* begins with the key and '=', or Undefined
ValueOfKey(content, keyName) ==
  LET lines == Split(content, "\n")
      n     == Len(keyName)
      hits  == { i \in 1..Len(lines) :
                   /\ Len(lines[i]) > n
                   /\ SubSeq(lines[i], 1, n) = keyName
                   /\ lines[i][n + 1] = "=" }
  IN  IF hits = { } THEN Undefined
      ELSE LET i == CHOOSE i \in hits : \A j \in hits : i <= j
           IN  SubSeq(lines[i], n + 2, Len(lines[i]))

\* C14: a storeKeyInFile call, with no other call in progress, returns false and
\* leaves the file as it is exactly when skipIfExists is set and the file gives
\* the key a value; otherwise it returns true and the file gives the key the
\* value stored
C14_StoreResultAndEffect ==
  [][ \A c \in CallIds :
        ( /\ calls[c].kind = "store"
          /\ calls[c].pc # "settled"
          /\ calls'[c].pc = "settled"
          /\ calls'[c].result.error = NoError )
          => LET filePath == calls[c].filePath
                 skipped  == /\ calls[c].skipIfExists
                             /\ ValueOfKey(files[filePath], calls[c].keyName) # Undefined
             IN  IF skipped
                 THEN calls'[c].result.value = << "false" >> /\ files' = files
                 ELSE /\ calls'[c].result.value = << "true" >>
                      /\ ValueOfKey(files'[filePath], calls[c].keyName) = calls[c].value
    ]_vars

\* ---------------------------------------------------------------------------
\* C15: across any interleaving of generateAndStoreSecretKey calls for one
\* environment, once the secret file holds a value under the secret-key
\* variable, no step of any call changes that value
\* ---------------------------------------------------------------------------
StoredSecretKey == ValueOfKey(files[SecretPath], SecretKeyVariable)

C15_NeverOverwrites ==
  [][ (StoredSecretKey # Undefined /\ StoredSecretKey # << >>)
        => StoredSecretKey' = StoredSecretKey ]_vars

\* ---------------------------------------------------------------------------
\* C16: encryptMultiple and decryptMultiple, when every element succeeds, return
\* a list of the length and in the order of the input whose i-th element is
\* the result of the single call on the i-th input; when an element fails they
\* raise an error and return nothing; decryptMultiple of an empty list returns
\* an empty list
\* ---------------------------------------------------------------------------
BatchSettled ==
  /\ cpc = "settled"
  /\ cin.op \in { "encryptMultiple", "decryptMultiple" }

\* the single call on the i-th input, with the seeds element i drew
SingleResult(i) ==
  IF cin.op = "encryptMultiple"
  THEN encrypt(cin.value[i], SecretKeyVariable, ContentAfterEnsure(files[SecretPath]),
               cloc[i].saltSeed, cloc[i].ivSeed)
  ELSE decrypt(cin.value[i], SecretKeyVariable, ContentAfterEnsure(files[SecretPath]))

AllElementsSettled == \A i \in DOMAIN cloc : cloc[i].status # "pending"

C16_WitnessRejected ==
  /\ BatchSettled
  /\ AllElementsSettled
  /\ cres.status = "threw"
  /\ \E i \in DOMAIN cloc : cloc[i].status = "fulfilled"

\* ---------------------------------------------------------------------------
\* C17: a store or a get on one path never waits for an operation on another
\* path: the handle a call waits on, and the handle registered under a path,
\* belong to an operation on that very path
\* ---------------------------------------------------------------------------
C17_PathsIndependent ==
  /\ \A c \in CallIds :
       calls[c].pc = "waitForFileLock" =>
         /\ calls[c].existingLock # NoLock
         /\ calls[calls[c].existingLock].filePath = calls[c].filePath
  /\ \A p \in Paths :
       fileLocks[p] # NoLock => calls[fileLocks[p]].filePath = p

\* a store on one path has run to completion, from its call to its write, while
\* a store called before it on the other path is still in flight
C17_Witness ==
  \E c \in StoreCalls, d \in StoreCalls :
    /\ d < c
    /\ calls[d].filePath # calls[c].filePath
    /\ InOperation(d)
    /\ calls[c].pc = "settled"
    /\ calls[c].result = Settled(<< "true" >>)

\* ---------------------------------------------------------------------------
\* C18: every encrypt call, those fanned out by encryptMultiple included, draws
\* its own salt and its own IV: the envelope it returns carries the salt and
\* the IV of its own draws, and two encryptions of one plaintext under one
\* secret whose draws differ return different envelopes
\* ---------------------------------------------------------------------------
Fulfilled(i) == i \in DOMAIN cloc /\ cloc[i].status = "fulfilled"

C18_Freshness ==
  (cpc \in { "pending", "settled" } /\ cin.op = "encryptMultiple") =>
    /\ \A i \in 1..MaxBatch :
         Fulfilled(i) =>
           /\ Split(cloc[i].value, SEPARATOR)[3] = generateBase64Salt(cloc[i].saltSeed).value
           /\ Split(cloc[i].value, SEPARATOR)[4]
                = Base64Encode(generateWebCryptoIV(NoLength, cloc[i].ivSeed).value)
    /\ \A i \in 1..MaxBatch, j \in 1..MaxBatch :
         ( /\ Fulfilled(i) /\ Fulfilled(j)
           /\ cin.value[i] = cin.value[j]
           /\ << cloc[i].saltSeed, cloc[i].ivSeed >> # << cloc[j].saltSeed, cloc[j].ivSeed >> )
         => cloc[i].value # cloc[j].value

\* one plaintext encrypted twice by one encryptMultiple, with the same salt drawn
\* and different IVs
C18_Witness ==
  /\ BatchSettled
  /\ cin.op = "encryptMultiple"
  /\ Fulfilled(1) /\ Fulfilled(2)
  /\ cin.value[1] = cin.value[2]
  /\ cloc[1].saltSeed = cloc[2].saltSeed
  /\ cloc[1].ivSeed # cloc[2].ivSeed
  /\ cres.status = "returned"
  /\ cres.value[1] # cres.value[2]

\* ---------------------------------------------------------------------------
\* C19: generate and generateWebCryptoIV, asked for a length L, return L random
\* bytes exactly when L is an integer with 8 <= L <= 4096; for any other L
\* they raise an error and draw no random bytes
\* ---------------------------------------------------------------------------
GeneratorSettled ==
  /\ cpc = "settled"
  /\ cin.op \in { "generate", "generateWebCryptoIV" }
  /\ cin.value[3].kind # "undefined"

\* the number of bytes in a value of the format the call asked for
ByteCount(value, outputFormat) ==
  CASE outputFormat = "base64" -> Len(Base64Decode(value))
    [] outputFormat = "hex" -> Len(value) \div 2
    [] outputFormat = "buffer" -> Len(value)

C19_LengthBounds ==
  GeneratorSettled =>
    LET L == cin.value[3]
        accepted == /\ L.kind = "number"
                    /\ L.num % L.den = 0
                    /\ 8 * L.den <= L.num
                    /\ L.num <= 4096 * L.den
    IN  /\ accepted <=> cres.status = "returned"
        /\ accepted => /\ ByteCount(cres.value, cin.value[2]) * L.den = L.num
                       /\ Len(prims) = 1
        /\ ~accepted => cres.status = "threw" /\ prims = << >>

\* both limits are accepted
C19_Witness ==
  /\ GeneratorSettled
  /\ cin.op = "generate"
  /\ cin.value[3] = Number(4096)
  /\ cres.status = "returned"

C19_WitnessLowerLimit ==
  /\ GeneratorSettled
  /\ cin.op = "generateWebCryptoIV"
  /\ cin.value[3] = Number(8)
  /\ cres.status = "returned"

\* ---------------------------------------------------------------------------
\* C20: no log entry of the cryptography subsystem contains the raw plaintext
\* value of a variable: the value of a variable of the environment file that
\* is not an encrypted envelope is interpolated into no log entry
\* ---------------------------------------------------------------------------
PlainValueOf(envVarName) ==
  IF files[EnvPath] = NoFile THEN Undefined
  ELSE LET value == parseEnvironmentContent(files[EnvPath], envVarName)
       IN  IF Falsy(value) \/ StartsWith(value, PREFIX) THEN Undefined ELSE value

C20_LogSecrecy ==
  \A k \in DOMAIN log, envVarName \in { << "A" >>, << "B" >> } :
    PlainValueOf(envVarName) # Undefined =>
      \A j \in DOMAIN log[k].values : log[k].values[j] # PlainValueOf(envVarName)

\* ---------------------------------------------------------------------------
\* C21: encrypt has no side effect on storage: no step of an encrypt call,
\* successful or failing, creates or modifies a file; the secret file has
\* the same existence and content after the call as before it
\* ---------------------------------------------------------------------------
C21_EncryptLeavesStorage ==
  [][ (cin'.op = "encrypt" /\ cpc' # "idle") => files' = files ]_vars

\* ---------------------------------------------------------------------------
\* C23: the handle is held for the whole operation: whenever a storeValue on
\* path p is inside its read / update / write section, the lock map holds a
\* pending handle for p; the completion of one operation never removes the
\* handle of another operation still in flight on the same path
\* ---------------------------------------------------------------------------
C23_HandleHeld ==
  \A c \in StoreCalls :
    InOperation(c) => fileLocks[calls[c].filePath] # NoLock

\* ---------------------------------------------------------------------------
\* C24: unique keys, last write wins: from a secret file in which every key
\* occurs on at most one line, after storeKeyInFile calls made one after
\* another every key still occurs on at most one line, and getKeyValue of a
\* key returns the value of the most recent storeKeyInFile of that key that
\* returned true
\* ---------------------------------------------------------------------------
C24_UniqueKeysLastWriteWins ==
  /\ \A keyName \in KeyNames :
       files[SecretPath] # NoFile
         => Cardinality(MatchingLines(files[SecretPath], keyName)) <= 1
  /\ \A g \in GetCalls :
       (calls[g].pc = "settled" /\ calls[g].result.error = NoError) =>
         LET stored == { c \in StoreCalls :
                           /\ c < g
                           /\ calls[c].keyName = calls[g].keyName
                           /\ calls[c].result.value = << "true" >> }
         IN  stored # { } =>
               calls[g].result.value
                 = calls[CHOOSE c \in stored : \A d \in stored : d <= c].value

\* ---------------------------------------------------------------------------
\* C28: getKeyValue cannot erase stored keys: in every interleaving of
\* getKeyValue calls with a storeKeyInFile on the same path, the file absent
\* at the start included, the key of a store that returned true is in the
\* file with its value once all calls have settled; the file creation done
\* for a read never truncates what a store wrote
\* ---------------------------------------------------------------------------
C28_ReadKeepsStoredKeys ==
  \A c \in StoreCalls :
    ( /\ \A d \in CallIds : calls[d].pc = "settled"
      /\ \A d \in StoreCalls \ { c } : calls[d].filePath # calls[c].filePath
      /\ calls[c].result.value = << "true" >> )
      => /\ files[calls[c].filePath] # NoFile
         /\ ValueOfKey(files[calls[c].filePath], calls[c].keyName) = calls[c].value

\* ---------------------------------------------------------------------------
\* C29: the key generateAndStoreSecretKey returns is the stored key: when a
\* call returns a value without raising, the secret file gives the secret-key
\* variable that value at that moment, also when a secret existed before
\* ---------------------------------------------------------------------------
C29_ReturnedKeyIsStored ==
  [][ \A c \in CallIds :
        ( /\ calls[c].kind = "generate"
          /\ calls[c].pc # "settled"
          /\ calls'[c].pc = "settled"
          /\ calls'[c].result.error = NoError )
          => ValueOfKey(files'[SecretPath], SecretKeyVariable) = calls'[c].result.value
    ]_vars

\* ---------------------------------------------------------------------------
\* C30: frame of storeKeyInFile: a call changes at most the line of its key,
\* replacing it, or appending one line when the key is absent; every other
\* line is unchanged, and a call that skips or fails before writing leaves the
\* content of the file unchanged
\* ---------------------------------------------------------------------------
C30_Frame ==
  [][ LET old == ContentAfterEnsure(files[SecretPath])
          new == ContentAfterEnsure(files'[SecretPath])
      IN  \/ new = old
          \/ \E c \in StoreCalls :
               /\ calls[c].pc = "writeFile"
               /\ calls'[c].result.value = << "true" >>
               /\ LET keyName  == calls[c].keyName
                      lines    == Split(old, NL)
                      newLines == Split(new, NL)
                      hits     == MatchingLines(old, keyName)
                  IN  IF hits # { }
                      THEN /\ Len(newLines) = Len(lines)
                           /\ \A i \in 1..Len(lines) :
                                IF i = CHOOSE h \in hits : \A j \in hits : h <= j
                                THEN StartsWith(newLines[i], keyName \o << "=" >>)
                                ELSE newLines[i] = lines[i]
                      ELSE \E n \in 1..Len(new) :
                             LET line == SubSeq(new, Len(new) - n + 1, Len(new))
                             IN  /\ \A i \in 1..n : line[i] # NL
                                 /\ StartsWith(line, keyName \o << "=" >>)
                                 /\ SubSeq(new, 1, Len(new) - n)
                                      \in { old, old \o << NL >> }
    ]_vars

(***************************************************************************)
(* EnvironmentFileEncryptor: encryptEnvironmentVariables on the environment  *)
(* file of the current environment                                          *)
(***************************************************************************)

\* StagesFileManager.parseEnvironmentLine: the key and the value of a line, or
\* null (the key Undefined) for an empty line, a comment, a line without '='
\* and a key that does not match ENV_VAR_KEY_PATTERN, /^[A-Z_][A-Z0-9_]*$/i
parseEnvironmentLine(line) ==
  LET trimmedLine == Trim(line)
      equals      == { i \in 1..Len(trimmedLine) : trimmedLine[i] = "=" }
      equalIndex  == CHOOSE i \in equals : \A j \in equals : i <= j
      key         == Trim(SubSeq(trimmedLine, 1, equalIndex - 1))
      Letter(c)   == c = "_" \/ (c \in B64Chars /\ B64Val[c] <= 51)
      Digit(c)    == c \in B64Chars /\ B64Val[c] >= 52 /\ B64Val[c] <= 61
      null        == [ key |-> Undefined, value |-> << >> ]
  IN  IF trimmedLine = << >> \/ trimmedLine[1] = "#" \/ equals = { } THEN null
      ELSE IF key = << >> \/ ~Letter(key[1])
                \/ \E i \in 2..Len(key) : ~(Letter(key[i]) \/ Digit(key[i]))
      THEN null
      ELSE [ key |-> key, value |-> SubSeq(trimmedLine, equalIndex + 1, Len(trimmedLine)) ]

\* StagesFileManager.extractEnvironmentVariables: the variables of the lines in
\* the order of their first line, each with the value of its last line
extractEnvironmentVariables(lines) ==
  LET keys   == [ i \in DOMAIN lines |-> parseEnvironmentLine(lines[i]).key ]
      firsts == SelectSeq([ i \in DOMAIN lines |-> i ],
                          LAMBDA i : /\ keys[i] # Undefined
                                     /\ \A j \in 1..(i - 1) : keys[j] # keys[i])
      Last(key) == CHOOSE i \in DOMAIN lines :
                     keys[i] = key /\ \A j \in (i + 1)..Len(lines) : keys[j] # key
  IN  [ n \in DOMAIN firsts |->
          [ key |-> keys[firsts[n]],
            value |-> parseEnvironmentLine(lines[Last(keys[firsts[n]])]).value ] ]

\* EncryptionUtils.isAlreadyEncrypted
isAlreadyEncrypted_MarkerAlone(value) ==
  IF Falsy(value) THEN FALSE ELSE value = PREFIX \o VERSION \o << ":" >>

isAlreadyEncrypted(value) ==
  IF Falsy(value) THEN FALSE ELSE StartsWith(value, PREFIX \o VERSION \o << ":" >>)

\* EncryptionVariableResolver.categorizeVariables
categorizeVariables(candidates, notFound) ==
  LET Keys(Test(_)) ==
        LET chosen == SelectSeq(candidates, Test)
        IN  [ n \in DOMAIN chosen |-> chosen[n].key ]
  IN  [ toEncrypt |-> SelectSeq(candidates,
                                LAMBDA v : /\ ~Falsy(Trim(v.value))
                                           /\ ~isAlreadyEncrypted(Trim(v.value))),
        alreadyEncrypted |-> Keys(LAMBDA v : /\ ~Falsy(Trim(v.value))
                                             /\ isAlreadyEncrypted(Trim(v.value))),
        emptyValues |-> Keys(LAMBDA v : Falsy(Trim(v.value))),
        notFound |-> notFound ]

\* EncryptionVariableResolver.resolveEncryptableVariables: every variable when
\* no target is named, else the targets that are variables of the file
resolveEncryptableVariables(allVariables, targetVariables) ==
  LET Value(key) ==
        LET hits == { n \in DOMAIN allVariables : allVariables[n].key = key }
        IN  IF hits = { } THEN Undefined ELSE allVariables[CHOOSE n \in hits : TRUE].value
      keys     == [ n \in DOMAIN targetVariables |-> Trim(targetVariables[n]) ]
      found    == SelectSeq([ n \in DOMAIN keys |-> n ],
                            LAMBDA n : /\ keys[n] # << >>
                                       /\ Value(keys[n]) # Undefined
                                       /\ \A m \in 1..(n - 1) : keys[m] # keys[n])
      missing  == SelectSeq([ n \in DOMAIN keys |-> n ],
                            LAMBDA n : keys[n] # << >> /\ Value(keys[n]) = Undefined)
  IN  IF targetVariables = << >> THEN categorizeVariables(allVariables, << >>)
      ELSE categorizeVariables(
             [ n \in DOMAIN found |-> [ key |-> keys[found[n]],
                                        value |-> Value(keys[found[n]]) ] ],
             [ n \in DOMAIN missing |-> keys[missing[n]] ])

\* VariableEncryptionExecutor.encryptAllValues: the variables are encrypted in
\* their order, the n-th with the n-th pair of seeds; the catch block records
\* the variable that failed and rethrows. attempts are the calls of
\* CryptoService.encrypt made
RECURSIVE encryptAllValues(_, _, _, _)
encryptAllValues(variables, secretKeyVariable, fileContent, seeds) ==
  IF variables = << >>
  THEN [ error |-> NoError, encrypted |-> << >>, failed |-> << >>, attempts |-> << >> ]
  ELSE LET key          == variables[1].key
           value        == variables[1].value
           trimmedValue == IF Trim(value) # << >> THEN Trim(value) ELSE value
       IN  Only({ IF r.status = "threw"
                  THEN [ error |-> r.error, encrypted |-> << >>, failed |-> << key >>,
                         attempts |-> << [ key |-> key, value |-> trimmedValue ] >> ]
                  ELSE Only({ [ rest EXCEPT
                                  !.encrypted = << [ key |-> key, value |-> r.value ] >> \o @,
                                  !.attempts = << [ key |-> key, value |-> trimmedValue ] >>
                                                 \o @ ] :
                              rest \in { encryptAllValues(Tail(variables), secretKeyVariable,
                                                          fileContent, Tail(seeds)) } }) :
                  r \in { encrypt(trimmedValue, secretKeyVariable, fileContent,
                                  seeds[1][1], seeds[1][2]) } })

\* StagesFileManager.updateMultipleEnvironmentVariables: a line whose trimmed
\* text starts with `KEY=` of a variable becomes KEY=value (the first such
\* variable), and the variables that updated no line are appended
updateMultipleEnvironmentVariables(existingLines, variables) ==
  LET Match(i) == { n \in DOMAIN variables :
                      StartsWith(Trim(existingLines[i]), variables[n].key \o << "=" >>) }
      First(i) == CHOOSE n \in Match(i) : \A m \in Match(i) : n <= m
      Line(n)  == variables[n].key \o << "=" >> \o variables[n].value
      updatedKeys == { First(i) : i \in { j \in DOMAIN existingLines : Match(j) # { } } }
      appended == SelectSeq([ n \in DOMAIN variables |-> n ], LAMBDA n : n \notin updatedKeys)
  IN  [ i \in DOMAIN existingLines |->
          IF Match(i) = { } THEN existingLines[i] ELSE Line(First(i)) ]
        \o [ n \in DOMAIN appended |-> Line(appended[n]) ]

\* EnvironmentFileEncryptor.encryptEnvironmentVariables(targetVariables), the
\* whole of processEncryption: read and parse the environment file, resolve the
\* variables to encrypt, encrypt them, write the lines back. Each encrypt reads
\* the secret file, which readEnvFileContent creates when it is absent. cloc
\* holds the resolution and the outcome of encryptAllValues, prims the calls of
\* CryptoService.encrypt
EncryptEnvironmentVariables(targetVariables, saltSeed, ivSeed) ==
  /\ cpc = "idle"
  /\ cpc' = "settled"
  /\ cin' = [ op |-> "encryptEnvironmentVariables", value |-> targetVariables,
              mutation |-> NoMutation ]
  /\ IF files[EnvPath] = NoFile
     THEN /\ cres' = Threw("encryptEnvironmentVariables",
                           [ name |-> "Error",
                             message |-> << "Environment file not found", EnvPath >> ])
          /\ cloc' = EmptyLocals
          /\ prims' = << >>
          /\ UNCHANGED files
     ELSE \E envFileLines \in { IF files[EnvPath] = << >> THEN << >>
                                ELSE Split(files[EnvPath], NL) } :
          \E resolution \in { resolveEncryptableVariables(
                                extractEnvironmentVariables(envFileLines),
                                targetVariables) } :
            IF resolution.toEncrypt = << >>
            THEN /\ cres' = Returned("encryptEnvironmentVariables", << >>)
                 /\ cloc' = [ resolution |-> resolution, failed |-> << >> ]
                 /\ prims' = << >>
                 /\ UNCHANGED files
            ELSE \E done \in { encryptAllValues(
                                 resolution.toEncrypt, SecretKeyVariable,
                                 ContentAfterEnsure(files[SecretPath]),
                                 [ n \in DOMAIN resolution.toEncrypt |->
                                     << ((saltSeed + n - 2) % NumSeeds) + 1, ivSeed >> ]) } :
                   /\ cloc' = [ resolution |-> resolution, failed |-> done.failed ]
                   /\ prims' = done.attempts
                   /\ IF done.error # NoError
                      THEN /\ cres' = Threw("encryptEnvironmentVariables", done.error)
                           /\ files' = [ files EXCEPT
                                           ![SecretPath] = ContentAfterEnsure(@) ]
                      ELSE /\ cres' = Returned("encryptEnvironmentVariables", << >>)
                           /\ files' = [ files EXCEPT
                                           ![SecretPath] = ContentAfterEnsure(@),
                                           ![EnvPath] =
                                             Join(updateMultipleEnvironmentVariables(
                                                    envFileLines, done.encrypted),
                                                  << NL >>) ]
  /\ UNCHANGED lastEnc
  /\ UNCHANGED storeVars
  /\ UNCHANGED log
  /\ UNCHANGED authVars

\* the environment file before the first call: the variable A left out, in
\* plain text, written with a space before '=', empty, or holding a damaged
\* envelope, and the variable B left out or in plain text under a comment and
\* a blank line; the secret file absent or holding a valid secret
InitProcessor ==
  /\ \E a \in { << >>, << "A", "=", "h", "i", NL >>, << "A", " ", "=", "h", "i", NL >>,
                << "A", "=", NL >>,
                << "A", "=" >> \o PREFIX \o VERSION \o << ":", "#", ":", "A", ":", "A", ":", "A", NL >> },
        b \in { << >>, << "#", " ", "c", NL, NL, "B", "=", "a", "b", "c" >> },
        secret \in { NoFile, formatEnvironmentKeyValue(SecretKeyVariable, Secret1) } :
       files = [ p \in Paths |-> IF p = SecretPath THEN secret ELSE a \o b ]
  /\ cpc = "idle"
  /\ cin = NoCall
  /\ cloc = EmptyLocals
  /\ prims = << >>
  /\ cres = NoResult
  /\ lastEnc = NoEnvelope
  /\ InitStoreVars

\* calls of encryptEnvironmentVariables made one after another
NextProcessor ==
  \/ \E targetVariables \in { << >>, << << "A" >> >>, << << "B" >> >>,
                              << << "A" >>, << "B" >> >> },
        saltSeed \in 1..NumSeeds, ivSeed \in 1..NumSeeds :
       EncryptEnvironmentVariables(targetVariables, saltSeed, ivSeed)
  \/ Await

SpecProcessor == InitProcessor /\ [][NextProcessor]_vars

(***************************************************************************)
(* Properties of encryptEnvironmentVariables                                *)
(***************************************************************************)

\* a call of encryptEnvironmentVariables completes in this step
ProcessorReturns ==
  /\ cpc = "idle"
  /\ cin'.op = "encryptEnvironmentVariables"
  /\ cres'.status = "returned"

\* the value the lines of the content give the variable: Undefined when no line
\* does, else the value of its last line
VariableValue(content, envVarName) ==
  LET allVariables == extractEnvironmentVariables(IF content = << >> THEN << >>
                                                  ELSE Split(content, NL))
      hits == { n \in DOMAIN allVariables : allVariables[n].key = envVarName }
  IN  IF hits = { } THEN Undefined ELSE allVariables[CHOOSE n \in hits : TRUE].value

\* ---------------------------------------------------------------------------
\* C22: after encryptEnvironmentVariables(V) completes successfully, every
\* variable of V that had a non-empty value in the environment file has, on
\* every line of the file that gives it a value, an envelope that encrypt
\* produces, and validateEncryption(V) reports true for it
\* ---------------------------------------------------------------------------
C22_EncryptedAndValidated ==
  [][ ProcessorReturns =>
        \A k \in DOMAIN cin'.value :
          LET envVarName == cin'.value[k]
              old        == VariableValue(files[EnvPath], envVarName)
              lines      == Split(files'[EnvPath], NL)
              envelopes  == { encrypt(value, SecretKeyVariable, files'[SecretPath],
                                      saltSeed, ivSeed).value :
                                value \in Plaintexts \ { << >> },
                                saltSeed \in 1..NumSeeds, ivSeed \in 1..NumSeeds }
          IN  (~Falsy(old) /\ Trim(old) # << >>) =>
                /\ \A i \in DOMAIN lines :
                     parseEnvironmentLine(lines[i]).key = envVarName
                       => parseEnvironmentLine(lines[i]).value \in envelopes
                /\ EncryptionValidator_isEncrypted(
                     parseEnvironmentContent(files'[EnvPath], envVarName)).result
    ]_vars

\* a call of encryptEnvironmentVariables that read the environment file has
\* settled
ProcessorSettled ==
  /\ cpc = "settled"
  /\ cin.op = "encryptEnvironmentVariables"
  /\ cloc # EmptyLocals

\* ---------------------------------------------------------------------------
\* C25: encryptAllValues: when a value fails to encrypt, the failure is
\* recorded and the function continues to the next value: every variable to
\* encrypt is handed to encrypt, and the function returns, without raising,
\* the encrypted values of the variables that succeeded
\* ---------------------------------------------------------------------------
C25_ContinuesAfterFailure ==
  (ProcessorSettled /\ cloc.failed # << >>) =>
    /\ Len(prims) = Len(cloc.resolution.toEncrypt)
    /\ cres.status = "returned"

\* the variable is left out of the content, or its trimmed value is empty or
\* starts with ENC2:v1:
EmptyOrMarked(content, envVarName) ==
  LET value == VariableValue(content, envVarName)
  IN  \/ value = Undefined
      \/ Trim(value) = << >>
      \/ StartsWith(Trim(value), << "E", "N", "C", "2", ":", "v", "1", ":" >>)

Initialize(c) ==
  /\ calls[c].pc = "unissued"
  /\ \A d \in CallIds : d < c => calls[d].pc # "unissued"
  /\ calls' = [ calls EXCEPT ![c] =
                  IF isInitialized
                  THEN [ NotIssued EXCEPT !.kind = "initialize", !.pc = "settled",
                                          !.result = Settled(<< "true" >>) ]
                  ELSE [ NotIssued EXCEPT !.kind = "initialize", !.pc = "writeFileAsync" ] ]
  /\ UNCHANGED << files, fileLocks, microtasks >>
  /\ UNCHANGED cryptoVars
  /\ UNCHANGED log
  /\ UNCHANGED authVars

\* AsyncFileManager.writeFile(filePath, emptyState) of call c completes: the file
\* holds EMPTY_AUTH_STATE, "{}"
WriteFileAsync(c) ==
  /\ calls[c].kind = "initialize"
  /\ calls[c].pc = "writeFileAsync"
  /\ calls' = [ calls EXCEPT ![c].pc = "written" ]
  /\ authStateFile' = << "{", "}" >>
  /\ authWrites' = authWrites + 1
  /\ UNCHANGED isInitialized
  /\ UNCHANGED << files, fileLocks, microtasks >>
  /\ UNCHANGED cryptoVars
  /\ UNCHANGED log

\* initialize resumes after its await: the flag is set and the call returns true
ResumeInitialize(c) ==
  /\ calls[c].kind = "initialize"
  /\ calls[c].pc = "written"
  /\ isInitialized' = TRUE
  /\ calls' = [ calls EXCEPT ![c].pc = "settled", ![c].result = Settled(<< "true" >>) ]
  /\ UNCHANGED << authStateFile, authWrites >>
  /\ UNCHANGED << files, fileLocks, microtasks >>
  /\ UNCHANGED cryptoVars
  /\ UNCHANGED log

\* the write of call c fails (or getFilePath throws): the catch block returns
\* false and leaves the flag as it is
WriteFileAsyncFails(c) ==
  /\ calls[c].kind = "initialize"
  /\ calls[c].pc = "writeFileAsync"
  /\ calls' = [ calls EXCEPT ![c].pc = "settled", ![c].result = Settled(<< "false" >>) ]
  /\ UNCHANGED << files, fileLocks, microtasks >>
  /\ UNCHANGED cryptoVars
  /\ UNCHANGED log
  /\ UNCHANGED authVars

\* a session starts with the flag unset; the auth state file is absent or left
\* by an earlier session
InitAuthentication ==
  /\ files = [ p \in Paths |-> NoFile ]
  /\ cpc = "idle"
  /\ cin = NoCall
  /\ cloc = EmptyLocals
  /\ prims = << >>
  /\ cres = NoResult
  /\ lastEnc = NoEnvelope
  /\ fileLocks = [ p \in Paths |-> NoLock ]
  /\ calls = [ c \in CallIds |-> NotIssued ]
  /\ microtasks = << >>
  /\ log = << >>
  /\ isInitialized = FALSE
  /\ authStateFile \in { NoFile, << "{", "}" >>, << "{", "x", "}" >> }
  /\ authWrites = 0

NextAuthentication ==
  \/ \E c \in CallIds : Initialize(c)
  \/ \E c \in CallIds : WriteFileAsync(c)
  \/ \E c \in CallIds : ResumeInitialize(c)
  \/ \E c \in CallIds : WriteFileAsyncFails(c)

SpecAuthentication == InitAuthentication /\ [][NextAuthentication]_vars

\* ---------------------------------------------------------------------------
\* C27: initialize happens only once per session: across any interleaving of
\* initialize calls with no reset, the empty authentication state is written
\* to the auth state file at most once, and a call made after a call returned
\* true returns true without writing
\* ---------------------------------------------------------------------------
C27_InitializeOnce ==
  /\ [](authWrites <= 1)
  /\ [][ \A c \in CallIds :
           ( /\ calls[c].pc = "unissued"
             /\ calls'[c].kind = "initialize"
             /\ \E d \in CallIds : calls[d].kind = "initialize"
                                   /\ calls[d].result = Settled(<< "true" >>) )
             => /\ calls'[c].result = Settled(<< "true" >>)
                /\ authWrites' = authWrites ]_vars

====
